---- MODULE Spec2Model ----
(***************************************************************************)
(* simple-compiler: the semantic analyzer (semantic.py), the optimizer     *)
(* (optimizer.py) and the execution of quadruple streams, over the syntax  *)
(* trees that the recursive-descent parser (parser_new.py) builds.         *)
(***************************************************************************)
EXTENDS Integers, Sequences, FiniteSets, TLC

(***************************************************************************)
(* Python values.  An operand of a quadruple and the value of a tree node  *)
(* is an int, a str or None; isinstance(v, int) is v.t = "int".            *)
(***************************************************************************)
IntV(i) == [t |-> "int", n |-> i, s |-> ""]

StrV(x) == [t |-> "str", n |-> 0, s |-> x]

NoneV == [t |-> "None", n |-> 0, s |-> ""]

\* str.startswith("t")
startswith_t(x) == Len(x) >= 1 /\ SubSeq(x, 1, 1) = "t"

(***************************************************************************)
(* Syntax tree nodes, as parser_new.py builds them.                        *)
(***************************************************************************)
ASTNode(node_type, value, children) ==
    [node_type |-> node_type, value |-> value, children |-> children]

Identifier(name) == ASTNode("Identifier", StrV(name), <<>>)

Number(i) == ASTNode("Number", IntV(i), <<>>)

Operator(lexeme) == ASTNode("Operator", StrV(lexeme), <<>>)

RelationalOperator(lexeme) == ASTNode("RelationalOperator", StrV(lexeme), <<>>)

\* _arithmetic_expression: left (+|-) term
ArithmeticExpression(left, op, right) ==
    ASTNode("ArithmeticExpression", NoneV, <<left, Operator(op), right>>)

\* _term: left (*|/) factor
Term(left, op, right) == ASTNode("Term", NoneV, <<left, Operator(op), right>>)

\* _boolean_expression: a node only when a relational operator follows
BooleanExpression(left, op, right) ==
    ASTNode("BooleanExpression", NoneV, <<left, RelationalOperator(op), right>>)

\* _expression: identifier '=' arithmetic expression
AssignmentExpression(name, expr) ==
    ASTNode("AssignmentExpression", NoneV, <<Identifier(name), expr>>)

AssignmentStatement(expr) == ASTNode("AssignmentStatement", NoneV, <<expr>>)

StatementSequence(stmts) == ASTNode("StatementSequence", NoneV, stmts)

\* _statement_sequence returns None for an empty sequence: no child is added
CompoundStatement(stmts) ==
    ASTNode("CompoundStatement", NoneV,
            IF stmts = <<>> THEN <<>> ELSE <<StatementSequence(stmts)>>)

IfStatement(cond, then_stmts) ==
    ASTNode("IfStatement", NoneV, <<cond, CompoundStatement(then_stmts)>>)

IfElseStatement(cond, then_stmts, else_stmts) ==
    ASTNode("IfStatement", NoneV,
            <<cond, CompoundStatement(then_stmts), CompoundStatement(else_stmts)>>)

WhileStatement(cond, body) ==
    ASTNode("WhileStatement", NoneV, <<cond, CompoundStatement(body)>>)

\* _for_statement: each of the three expressions is a child only when present
ForStatement(exprs, body) ==
    ASTNode("ForStatement", NoneV, exprs \o <<CompoundStatement(body)>>)

IdentifierList(names) ==
    ASTNode("IdentifierList", NoneV, [i \in 1..Len(names) |-> Identifier(names[i])])

Declaration(names) == ASTNode("Declaration", NoneV, <<IdentifierList(names)>>)

DeclarationSequence(decls) ==
    ASTNode("DeclarationSequence", NoneV,
            [i \in 1..Len(decls) |-> Declaration(decls[i])])

\* _program: a sequence is a child only when it is not empty
Program(decls, stmts) ==
    ASTNode("Program", NoneV,
            (IF decls = <<>> THEN <<>> ELSE <<DeclarationSequence(decls)>>)
            \o (IF stmts = <<>> THEN <<>> ELSE <<StatementSequence(stmts)>>))

(***************************************************************************)
(* Quadruples and the symbol table.                                        *)
(***************************************************************************)
Quadruple(op, arg1, arg2, result) ==
    [op |-> op, arg1 |-> arg1, arg2 |-> arg2, result |-> result]

\* name in self.symbols
exists(symbols, name) == \E i \in 1..Len(symbols) : symbols[i].name = name

\* raise SemanticError(message): the exception leaves every caller at once
Raise(self, message) == [self EXCEPT !.raised = message]

Redeclared(name) == "Symbol '" \o name \o "' redeclared"

NotDeclared(name) == "Identifier '" \o name \o "' not declared"

UnknownExpression(node_type) == "Unknown expression type: " \o node_type

\* add_symbol without its membership test: the dict assignment alone, which
\* overwrites the entry of a name already in the table
add_symbol_overwriting(self, name, is_temp) ==
    LET entry == [name |-> name, type |-> "int", is_temp |-> is_temp]
    IN  [self EXCEPT !.symbols =
            IF exists(self.symbols, name)
            THEN [i \in 1..Len(self.symbols) |->
                    IF self.symbols[i].name = name THEN entry ELSE self.symbols[i]]
            ELSE Append(self.symbols, entry)]

\* SymbolTable.add_symbol, on the analyzer's state `self`
add_symbol(self, name, is_temp) ==
    IF exists(self.symbols, name)
    THEN Raise(self, Redeclared(name))
    ELSE [self EXCEPT !.symbols =
            Append(@, [name |-> name, type |-> "int", is_temp |-> is_temp])]

\* new_temp with a counter that does not move: the name is handed out again
new_temp_reusing(self) ==
    LET temp_name == "t" \o ToString(self.next_temp)
    IN  [(IF exists(self.symbols, temp_name) THEN self
          ELSE add_symbol(self, temp_name, TRUE)) EXCEPT !.ret = StrV(temp_name)]

\* SymbolTable.new_temp: the counter moves before the insertion is tried
new_temp(self) ==
    LET temp_name == "t" \o ToString(self.next_temp)
        bumped == [self EXCEPT !.next_temp = @ + 1]
    IN  [add_symbol(bumped, temp_name, TRUE) EXCEPT !.ret = StrV(temp_name)]

\* _new_label without the increment of the counter
_new_label_stuck(self) ==
    [self EXCEPT !.ret = StrV("L" \o ToString(self.next_label))]

\* SemanticAnalyzer._new_label
_new_label(self) ==
    [self EXCEPT !.ret = StrV("L" \o ToString(self.next_label)),
                 !.next_label = @ + 1]

\* self.quadruples.append(quad)
Emit(self, quad) == [self EXCEPT !.quadruples = Append(@, quad)]

(***************************************************************************)
(* Expression translation.  Each operator takes the analyzer's state and a *)
(* node and gives the state after the call, the returned value in `ret`;   *)
(* a state that carries a raised error passes through every later call.    *)
(***************************************************************************)
RECURSIVE _analyze_expression(_, _)
RECURSIVE _analyze_assign_expr(_, _)
RECURSIVE _analyze_bool_expr(_, _)
RECURSIVE _analyze_arith_expr(_, _)
RECURSIVE _analyze_term(_, _)
RECURSIVE _analyze_factor(_, _)

\* an identifier operand: declared, or Undeclared is raised
identifier_operand(self, child) ==
    IF ~exists(self.symbols, child.value.s)
    THEN Raise(self, NotDeclared(child.value.s))
    ELSE [self EXCEPT !.ret = child.value]

\* the operand branches of _analyze_arith_expr
arith_operand(self, child) ==
    IF self.raised # "" THEN self
    ELSE IF child.node_type = "Identifier" THEN identifier_operand(self, child)
    ELSE IF child.node_type = "Number" THEN [self EXCEPT !.ret = child.value]
    ELSE IF child.node_type = "ArithmeticExpression"
         THEN _analyze_arith_expr(self, child)
    ELSE _analyze_expression(self, child)

\* the operand branches of _analyze_term
term_operand(self, child) ==
    IF self.raised # "" THEN self
    ELSE IF child.node_type = "Identifier" THEN identifier_operand(self, child)
    ELSE IF child.node_type = "Number" THEN [self EXCEPT !.ret = child.value]
    ELSE IF child.node_type = "Factor" THEN _analyze_factor(self, child)
    ELSE _analyze_expression(self, child)

\* the operand branches of _analyze_bool_expr
bool_operand(self, child) ==
    IF self.raised # "" THEN self
    ELSE IF child.node_type = "Identifier" THEN identifier_operand(self, child)
    ELSE IF child.node_type = "Number" THEN [self EXCEPT !.ret = child.value]
    ELSE _analyze_arith_expr(self, child)

\* "Generate quadruple": a fresh temporary receives op(left, right)
binary_quad(self, op, left, right) ==
    IF self.raised # "" THEN self
    ELSE LET made == new_temp(self)
         IN  IF made.raised # "" THEN made
             ELSE Emit(made, Quadruple(op, left, right, made.ret))

_analyze_expression(self, node) ==
    IF self.raised # "" THEN self
    ELSE IF node.node_type = "AssignmentExpression" THEN _analyze_assign_expr(self, node)
    ELSE IF node.node_type = "BooleanExpression" THEN _analyze_bool_expr(self, node)
    ELSE IF node.node_type = "ArithExpression" THEN _analyze_arith_expr(self, node)
    ELSE IF node.node_type = "Term" THEN _analyze_term(self, node)
    ELSE IF node.node_type = "Factor" THEN _analyze_factor(self, node)
    ELSE Raise(self, UnknownExpression(node.node_type))

_analyze_assign_expr(self, node) ==
    IF self.raised # "" THEN self
    ELSE IF Len(node.children) < 2
         THEN Raise(self, "Assignment expression missing right-hand expression")
    ELSE LET id_node == node.children[1]
             right_expr == node.children[2]
             right ==
                 IF right_expr.node_type = "ArithmeticExpression"
                 THEN _analyze_arith_expr(self, right_expr)
                 ELSE IF right_expr.node_type = "Identifier"
                 THEN identifier_operand(self, right_expr)
                 ELSE IF right_expr.node_type = "Number"
                 THEN [self EXCEPT !.ret = right_expr.value]
                 ELSE _analyze_expression(self, right_expr)
         IN  IF id_node.node_type # "Identifier"
             THEN Raise(self, "Assignment expression missing left-hand identifier")
             ELSE IF ~exists(self.symbols, id_node.value.s)
             THEN Raise(self, NotDeclared(id_node.value.s))
             ELSE IF right.raised # "" THEN right
             ELSE [Emit(right, Quadruple("=", right.ret, NoneV, id_node.value))
                     EXCEPT !.ret = id_node.value]

_analyze_bool_expr(self, node) ==
    IF self.raised # "" THEN self
    ELSE IF Len(node.children) = 1
    THEN LET arith == _analyze_arith_expr(self, node.children[1])
             made == new_temp(arith)
         IN  IF arith.raised # "" THEN arith
             ELSE IF made.raised # "" THEN made
             ELSE [Emit(made, Quadruple("!=", arith.ret, IntV(0), made.ret))
                     EXCEPT !.ret = Quadruple("!=", arith.ret, IntV(0), made.ret)]
    ELSE IF Len(node.children) = 3
    THEN LET left == bool_operand(self, node.children[1])
             right == bool_operand(left, node.children[3])
             rel_op == node.children[2].value.s
         IN  IF right.raised # "" THEN right
             ELSE [right EXCEPT !.ret = Quadruple(rel_op, left.ret, right.ret, NoneV)]
    ELSE Raise(self, "Boolean expression format error")

_analyze_arith_expr(self, node) ==
    IF self.raised # "" THEN self
    ELSE IF Len(node.children) = 3
    THEN LET left == arith_operand(self, node.children[1])
             right == arith_operand(left, node.children[3])
         IN  binary_quad(right, node.children[2].value.s, left.ret, right.ret)
    ELSE _analyze_expression(self, node.children[1])

_analyze_term(self, node) ==
    IF self.raised # "" THEN self
    ELSE IF Len(node.children) = 3
    THEN LET left == term_operand(self, node.children[1])
             right == term_operand(left, node.children[3])
         IN  binary_quad(right, node.children[2].value.s, left.ret, right.ret)
    ELSE _analyze_factor(self, node.children[1])

_analyze_factor(self, node) ==
    IF self.raised # "" THEN self
    ELSE IF node.children = <<>> THEN Raise(self, "Factor is empty")
    ELSE LET child == node.children[1]
         IN  IF child.node_type = "Identifier" THEN identifier_operand(self, child)
             ELSE IF child.node_type = "Number" THEN [self EXCEPT !.ret = child.value]
             ELSE IF child.node_type = "ArithExpression"
                  THEN _analyze_arith_expr(self, child)
             ELSE Raise(self, "Illegal factor type: " \o child.node_type)

\* SemanticAnalyzer._analyze_declaration: the identifiers from position i on
RECURSIVE declare_from(_, _, _)
declare_from(self, ids, i) ==
    IF self.raised # "" \/ i > Len(ids) THEN self
    ELSE IF ids[i].node_type = "Identifier"
         THEN declare_from(add_symbol(self, ids[i].value.s, FALSE), ids, i + 1)
    ELSE declare_from(self, ids, i + 1)

\* next((c for c in node.children if c.node_type in types), None), as an index
first_child(node, types) ==
    LET hits == {i \in 1..Len(node.children) : node.children[i].node_type \in types}
    IN  IF hits = {} THEN 0 ELSE CHOOSE i \in hits : \A j \in hits : i <= j

_analyze_declaration(self, node) ==
    LET at == first_child(node, {"IdentifierList"})
    IN  IF at = 0 THEN Raise(self, "Declaration missing identifier list")
        ELSE declare_from(self, node.children[at].children, 1)

(***************************************************************************)
(* The analyzer as a state machine.  `stack` is the call stack of the walk *)
(* (top at the end): one frame per active loop over children and per       *)
(* active if, while or for handler, with the handler's locals.  `base` and *)
(* `jump_at` record where in the stream the handler started and where it   *)
(* put its conditional jump.                                               *)
(***************************************************************************)
VARIABLES ast, symbols, next_temp, quadruples, errors, next_label,
          stack, pc, result, optimized_quads, constants,
          generator_quadruples, assembly

analyzer_vars == <<ast, symbols, next_temp, quadruples, errors, next_label,
                   stack, result>>

optimizer_vars == <<optimized_quads, constants>>

\* CodeGenerator.quadruples and CodeGenerator.assembly
generator_vars == <<generator_quadruples, assembly>>

vars == <<ast, symbols, next_temp, quadruples, errors, next_label,
          stack, pc, result, optimized_quads, constants,
          generator_quadruples, assembly>>

Frame(fn, node, i) ==
    [fn |-> fn, node |-> node, i |-> i, false_label |-> NoneV,
     start_label |-> NoneV, end_label |-> NoneV, base |-> 0, jump_at |-> 0]

Top == stack[Len(stack)]

Below == SubSeq(stack, 1, Len(stack) - 1)

\* the caller's loop has moved on to its next child
Advanced == Append(Below, [Top EXCEPT !.i = @ + 1])

\* the analyzer object, as the expression operators take it
Self ==
    [symbols |-> symbols, next_temp |-> next_temp, quadruples |-> quadruples,
     next_label |-> next_label, raised |-> "", ret |-> NoneV]

\* _analyze_compound_stmt: the frames it adds (none for an empty block)
compound_frames(node) ==
    LET at == first_child(node, {"StatementSequence"})
    IN  IF at = 0 THEN <<>>
        ELSE <<Frame("_analyze_stmt_list", node.children[at], 1)>>

\* the CompoundStatement children of a node, in order
RECURSIVE compound_stmts_from(_, _)
compound_stmts_from(node, i) ==
    IF i > Len(node.children) THEN <<>>
    ELSE (IF node.children[i].node_type = "CompoundStatement"
          THEN <<node.children[i]>> ELSE <<>>)
         \o compound_stmts_from(node, i + 1)

\* the walk goes on with the state `self` and the stack `frames`
Continue(self, frames) ==
    /\ symbols' = self.symbols
    /\ next_temp' = self.next_temp
    /\ quadruples' = self.quadruples
    /\ next_label' = self.next_label
    /\ stack' = frames
    /\ UNCHANGED <<ast, errors, pc, result, optimized_quads, constants,
                   generator_quadruples, assembly>>

\* analyze's except clause: the error is recorded and analyze returns False
Fail(self) ==
    /\ symbols' = self.symbols
    /\ next_temp' = self.next_temp
    /\ quadruples' = self.quadruples
    /\ next_label' = self.next_label
    /\ errors' = Append(errors, "Semantic error: " \o self.raised)
    /\ stack' = <<>>
    /\ pc' = "returned"
    /\ result' = FALSE
    /\ UNCHANGED <<ast, optimized_quads, constants, generator_quadruples, assembly>>

\* a walk that collects errors: the error is recorded and the walk goes on
Step_collecting(self, frames) ==
    IF self.raised = "" THEN Continue(self, frames)
    ELSE /\ symbols' = self.symbols
         /\ next_temp' = self.next_temp
         /\ quadruples' = self.quadruples
         /\ next_label' = self.next_label
         /\ errors' = Append(errors, "Semantic error: " \o self.raised)
         /\ stack' = frames
         /\ UNCHANGED <<ast, pc, result, optimized_quads, constants,
                        generator_quadruples, assembly>>

\* a step of the walk: it ends in the except clause when it raised
Step(self, frames) ==
    IF self.raised # "" THEN Fail(self) ELSE Continue(self, frames)

\* analyze: the call of _analyze_program
analyze ==
    /\ pc = "analyze"
    /\ IF ast.node_type # "Program"
       THEN Fail(Raise(Self, "Expected Program node, got " \o ast.node_type))
       ELSE /\ stack' = <<Frame("_analyze_program", ast, 1)>>
            /\ pc' = "walk"
            /\ UNCHANGED <<ast, symbols, next_temp, quadruples, errors,
                           next_label, result, optimized_quads, constants,
                           generator_quadruples, assembly>>

InLoop(fn) ==
    /\ pc = "walk"
    /\ stack # <<>>
    /\ Top.fn = fn
    /\ Top.i <= Len(Top.node.children)

Child == Top.node.children[Top.i]

\* _analyze_program: one child of the program node
_analyze_program ==
    /\ InLoop("_analyze_program")
    /\ Continue(Self,
         IF Child.node_type = "DeclarationSequence"
         THEN Append(Advanced, Frame("_analyze_decl_list", Child, 1))
         ELSE IF Child.node_type = "StatementSequence"
         THEN Append(Advanced, Frame("_analyze_stmt_list", Child, 1))
         ELSE Advanced)

\* _analyze_decl_list: one declaration
_analyze_decl_list ==
    /\ InLoop("_analyze_decl_list")
    /\ Step(IF Child.node_type = "Declaration"
            THEN _analyze_declaration(Self, Child) ELSE Self,
            Advanced)

\* _analyze_statement, assignment statement
_analyze_assignment_stmt ==
    /\ InLoop("_analyze_stmt_list")
    /\ Child.node_type = "AssignmentStatement"
    /\ LET at == first_child(Child, {"AssignmentExpression", "BoolExpression"})
       IN  Step(IF at = 0
                THEN Raise(Self, "Assignment statement missing expression")
                ELSE _analyze_expression(Self, Child.children[at]),
                Advanced)

\* the conditional jump of an if statement on the condition's result
if_jump(self, cond_result, expr_node, false_label) ==
    IF expr_node.node_type = "BooleanExpression" /\ Len(expr_node.children) > 1
    THEN Emit(self, Quadruple("j" \o cond_result.op, cond_result.arg1,
                              cond_result.arg2, false_label))
    ELSE LET made == new_temp(self)
         IN  IF made.raised # "" THEN made
             ELSE Emit(Emit(made, Quadruple("!=", cond_result, IntV(0), made.ret)),
                       Quadruple("j==", made.ret, IntV(0), false_label))

\* the conditional jump of a while or for statement
loop_jump(self, cond_result, expr_node, end_label) ==
    IF expr_node.node_type = "BooleanExpression" /\ Len(expr_node.children) > 1
    THEN Emit(self, Quadruple("j!" \o cond_result.op, cond_result.arg1,
                              cond_result.arg2, end_label))
    ELSE LET made == new_temp(self)
         IN  IF made.raised # "" THEN made
             ELSE Emit(Emit(made, Quadruple("==", cond_result, IntV(0), made.ret)),
                       Quadruple("j!=", made.ret, IntV(0), end_label))

Conditions == {"AssignmentExpression", "BooleanExpression"}

\* _analyze_if_stmt up to the THEN block
_analyze_if_stmt ==
    /\ InLoop("_analyze_stmt_list")
    /\ Child.node_type = "IfStatement"
    /\ LET at == first_child(Child, Conditions)
           expr_node == Child.children[at]
           cond == _analyze_expression(Self, expr_node)
           l1 == _new_label(cond)
           l2 == _new_label(l1)
           jumped == if_jump(l2, cond.ret, expr_node, l1.ret)
           then_at == first_child(Child, {"CompoundStatement"})
           frame == [Frame("_analyze_if_stmt", Child, 1) EXCEPT
                       !.false_label = l1.ret, !.end_label = l2.ret,
                       !.base = Len(quadruples),
                       !.jump_at = Len(jumped.quadruples)]
       IN  IF at = 0
           THEN Fail(Raise(Self, "if statement missing condition expression"))
           ELSE IF cond.raised # "" THEN Fail(cond)
           ELSE Step(jumped,
                     Append(Advanced, frame)
                     \o (IF then_at = 0 THEN <<>>
                         ELSE compound_frames(Child.children[then_at])))

\* _analyze_if_stmt after the THEN block: jump, false label, ELSE block
if_then_done ==
    /\ pc = "walk" /\ stack # <<>>
    /\ Top.fn = "_analyze_if_stmt" /\ Top.i = 1
    /\ LET jumped == Emit(Self, Quadruple("jump", NoneV, NoneV, Top.end_label))
           labelled == Emit(jumped, Quadruple("label", NoneV, NoneV, Top.false_label))
           compound_stmts == compound_stmts_from(Top.node, 1)
       IN  Continue(labelled,
                    Append(Below, [Top EXCEPT !.i = 2])
                    \o (IF Len(compound_stmts) > 1
                        THEN compound_frames(compound_stmts[2]) ELSE <<>>))

\* _analyze_if_stmt after the ELSE block: the end label
if_else_done ==
    /\ pc = "walk" /\ stack # <<>>
    /\ Top.fn = "_analyze_if_stmt" /\ Top.i = 2
    /\ Continue(Emit(Self, Quadruple("label", NoneV, NoneV, Top.end_label)), Below)

\* _analyze_while_stmt up to the body
_analyze_while_stmt ==
    /\ InLoop("_analyze_stmt_list")
    /\ Child.node_type = "WhileStatement"
    /\ LET l1 == _new_label(Self)
           l2 == _new_label(l1)
           started == Emit(l2, Quadruple("label", NoneV, NoneV, l1.ret))
           at == first_child(Child, Conditions)
           expr_node == Child.children[at]
           cond == _analyze_expression(started, expr_node)
           jumped == loop_jump(cond, cond.ret, expr_node, l2.ret)
           body_at == first_child(Child, {"CompoundStatement"})
           frame == [Frame("_analyze_while_stmt", Child, 1) EXCEPT
                       !.start_label = l1.ret, !.end_label = l2.ret,
                       !.base = Len(quadruples),
                       !.jump_at = Len(jumped.quadruples)]
       IN  IF at = 0
           THEN Fail(Raise(started, "while statement missing condition expression"))
           ELSE IF cond.raised # "" THEN Fail(cond)
           ELSE Step(jumped,
                     Append(Advanced, frame)
                     \o (IF body_at = 0 THEN <<>>
                         ELSE compound_frames(Child.children[body_at])))

\* _analyze_while_stmt after the body: the back jump and the end label
while_body_done ==
    /\ pc = "walk" /\ stack # <<>>
    /\ Top.fn = "_analyze_while_stmt"
    /\ LET jumped == Emit(Self, Quadruple("jump", NoneV, NoneV, Top.start_label))
       IN  Continue(Emit(jumped, Quadruple("label", NoneV, NoneV, Top.end_label)),
                    Below)

\* _analyze_for_stmt after the body: the iteration expression, the back
\* jump and the end label
for_body_done ==
    /\ pc = "walk" /\ stack # <<>>
    /\ Top.fn = "_analyze_for_stmt"
    /\ LET iterated == _analyze_expression(Self, Top.node.children[3])
           jumped == Emit(iterated, Quadruple("jump", NoneV, NoneV, Top.start_label))
       IN  IF iterated.raised # "" THEN Fail(iterated)
           ELSE Continue(Emit(jumped, Quadruple("label", NoneV, NoneV, Top.end_label)),
                         Below)

\* _analyze_for_stmt up to the body
_analyze_for_stmt ==
    /\ InLoop("_analyze_stmt_list")
    /\ Child.node_type = "ForStatement"
    /\ LET init == _analyze_expression(Self, Child.children[1])
           l1 == _new_label(init)
           l2 == _new_label(l1)
           started == Emit(l2, Quadruple("label", NoneV, NoneV, l1.ret))
           cond_expr == Child.children[2]
           cond == _analyze_expression(started, cond_expr)
           jumped == loop_jump(cond, cond.ret, cond_expr, l2.ret)
           body_stmt == Child.children[4]
           frame == [Frame("_analyze_for_stmt", Child, 1) EXCEPT
                       !.start_label = l1.ret, !.end_label = l2.ret,
                       !.base = Len(quadruples),
                       !.jump_at = Len(jumped.quadruples)]
       IN  IF Len(Child.children) < 4
           THEN Fail(Raise(Self, "For statement has incorrect number of children"))
           ELSE IF init.raised # "" THEN Fail(init)
           ELSE IF cond.raised # "" THEN Fail(cond)
           ELSE Step(jumped,
                     Append(Advanced, frame)
                     \o (IF body_stmt.node_type = "CompoundStatement"
                         THEN compound_frames(body_stmt) ELSE <<>>))

\* _analyze_statement, the other statement kinds
_analyze_statement ==
    /\ InLoop("_analyze_stmt_list")
    /\ Child.node_type \notin {"AssignmentStatement", "IfStatement",
                               "WhileStatement", "ForStatement"}
    /\ IF Child.node_type = "CompoundStatement"
       THEN Continue(Self, Advanced \o compound_frames(Child))
       ELSE IF Child.node_type = "EmptyStatement"
       THEN Continue(Self, Advanced)
       ELSE Fail(Raise(Self, "Unknown statement type: " \o Child.node_type))

\* a loop over children is exhausted: the function returns to its caller
loop_end ==
    /\ pc = "walk" /\ stack # <<>>
    /\ Top.fn \in {"_analyze_program", "_analyze_decl_list", "_analyze_stmt_list"}
    /\ Top.i > Len(Top.node.children)
    /\ Continue(Self, Below)

\* analyze: _analyze_program has returned
analyze_return ==
    /\ pc = "walk" /\ stack = <<>>
    /\ pc' = "returned"
    /\ result' = (Len(errors) = 0)
    /\ UNCHANGED <<ast, symbols, next_temp, quadruples, errors, next_label,
                   stack, optimized_quads, constants, generator_quadruples, assembly>>

(***************************************************************************)
(* The optimizer.  `constants` and the expression table of the CSE pass    *)
(* are Python dicts: sequences of key/value pairs in insertion order.      *)
(***************************************************************************)
has_key(dict, key) == \E i \in 1..Len(dict) : dict[i].key = key

dict_get(dict, key) ==
    dict[CHOOSE i \in 1..Len(dict) : dict[i].key = key].value

\* dict[key] = value
dict_set(dict, key, value) ==
    IF has_key(dict, key)
    THEN [i \in 1..Len(dict) |->
            IF dict[i].key = key THEN [key |-> key, value |-> value] ELSE dict[i]]
    ELSE Append(dict, [key |-> key, value |-> value])

Arithmetic == {"+", "-", "*", "/"}

Relational == {"==", "!=", ">", "<", ">=", "<="}

\* _get_value that resolves literals only and never looks into the map
_get_value_literal(consts, operand) ==
    IF operand.t = "int" THEN [has_value |-> TRUE, value |-> operand.n]
    ELSE [has_value |-> FALSE, value |-> 0]

\* Optimizer._get_value: has_value is FALSE for None
_get_value(consts, operand) ==
    IF operand.t = "int" THEN [has_value |-> TRUE, value |-> operand.n]
    ELSE IF operand.t = "str" /\ has_key(consts, operand.s)
    THEN [has_value |-> TRUE, value |-> dict_get(consts, operand.s)]
    ELSE [has_value |-> FALSE, value |-> 0]

\* Python's // on ints: the floor of the quotient
floordiv(x, y) == x \div y

\* Optimizer._compute_constant (the division is guarded by its caller)
_compute_constant(op, arg1, arg2) ==
    CASE op = "+" -> arg1 + arg2
      [] op = "-" -> arg1 - arg2
      [] op = "*" -> arg1 * arg2
      [] op = "/" -> floordiv(arg1, arg2)
      [] op = "==" -> IF arg1 = arg2 THEN 1 ELSE 0
      [] op = "!=" -> IF arg1 # arg2 THEN 1 ELSE 0
      [] op = ">" -> IF arg1 > arg2 THEN 1 ELSE 0
      [] op = "<" -> IF arg1 < arg2 THEN 1 ELSE 0
      [] op = ">=" -> IF arg1 >= arg2 THEN 1 ELSE 0
      [] op = "<=" -> IF arg1 <= arg2 THEN 1 ELSE 0

\* an iteration that folds nothing and records nothing
fold_quad_keeping(consts, quad) == [quad |-> quad, constants |-> consts]

\* an iteration that takes the quotient of a division by 0 to be 0
fold_quad_zero_quotient(consts, quad) ==
    LET arg1_val == _get_value(consts, quad.arg1)
        arg2_val == _get_value(consts, quad.arg2)
        result_val == IF quad.op = "/" /\ arg2_val.value = 0 THEN 0
                      ELSE _compute_constant(quad.op, arg1_val.value, arg2_val.value)
    IN  IF quad.op = "="
        THEN [quad |-> quad,
              constants |->
                IF quad.arg1.t = "int"
                THEN dict_set(consts, quad.result.s, quad.arg1.n)
                ELSE IF quad.arg1.t = "str" /\ has_key(consts, quad.arg1.s)
                THEN dict_set(consts, quad.result.s, dict_get(consts, quad.arg1.s))
                ELSE consts]
        ELSE IF quad.op \in {"+", "-", "*", "/", "==", "!=", ">", "<", ">=", "<="}
                /\ arg1_val.has_value /\ arg2_val.has_value
        THEN [quad |-> [op |-> "=", arg1 |-> IntV(result_val), arg2 |-> NoneV,
                        result |-> quad.result],
              constants |-> dict_set(consts, quad.result.s, result_val)]
        ELSE [quad |-> quad, constants |-> consts]

\* an iteration that also writes known constants into the operands of a
\* conditional jump
fold_quad_jumps(consts, quad) ==
    LET arg1_val == _get_value(consts, quad.arg1)
        arg2_val == _get_value(consts, quad.arg2)
        result_val == _compute_constant(quad.op, arg1_val.value, arg2_val.value)
        folded == [quad |-> Quadruple("=", IntV(result_val), NoneV, quad.result),
                   constants |-> dict_set(consts, quad.result.s, result_val)]
        kept == [quad |-> quad, constants |-> consts]
    IN  IF Len(quad.op) > 1 /\ SubSeq(quad.op, 1, 1) = "j" /\ quad.op # "jump"
        THEN [quad |-> [quad EXCEPT
                          !.arg1 = IF arg1_val.has_value
                                   THEN [t |-> "int", n |-> arg1_val.value, s |-> ""]
                                   ELSE @,
                          !.arg2 = IF arg2_val.has_value
                                   THEN [t |-> "int", n |-> arg2_val.value, s |-> ""]
                                   ELSE @],
              constants |-> consts]
        ELSE IF quad.op = "="
        THEN [quad |-> quad,
              constants |->
                IF quad.arg1.t = "int"
                THEN dict_set(consts, quad.result.s, quad.arg1.n)
                ELSE IF quad.arg1.t = "str" /\ has_key(consts, quad.arg1.s)
                THEN dict_set(consts, quad.result.s, dict_get(consts, quad.arg1.s))
                ELSE consts]
        ELSE IF quad.op \in Arithmetic
        THEN IF arg1_val.has_value /\ arg2_val.has_value
             THEN IF quad.op = "/" /\ arg2_val.value = 0
                  THEN kept              \* ZeroDivisionError: the quadruple is kept
                  ELSE folded
             ELSE kept
        ELSE IF quad.op \in Relational
        THEN IF arg1_val.has_value /\ arg2_val.has_value THEN folded ELSE kept
        ELSE kept

\* one iteration of the loop of _constant_folding: the quadruple it appends
\* and the constant table after it
fold_quad(consts, quad) ==
    LET arg1_val == _get_value(consts, quad.arg1)
        arg2_val == _get_value(consts, quad.arg2)
        result_val == _compute_constant(quad.op, arg1_val.value, arg2_val.value)
        folded == [quad |-> Quadruple("=", IntV(result_val), NoneV, quad.result),
                   constants |-> dict_set(consts, quad.result.s, result_val)]
        kept == [quad |-> quad, constants |-> consts]
    IN  IF quad.op = "="
        THEN [quad |-> quad,
              constants |->
                IF quad.arg1.t = "int"
                THEN dict_set(consts, quad.result.s, quad.arg1.n)
                ELSE IF quad.arg1.t = "str" /\ has_key(consts, quad.arg1.s)
                THEN dict_set(consts, quad.result.s, dict_get(consts, quad.arg1.s))
                ELSE consts]
        ELSE IF quad.op \in Arithmetic
        THEN IF arg1_val.has_value /\ arg2_val.has_value
             THEN IF quad.op = "/" /\ arg2_val.value = 0
                  THEN kept              \* ZeroDivisionError: the quadruple is kept
                  ELSE folded
             ELSE kept
        ELSE IF quad.op \in Relational
        THEN IF arg1_val.has_value /\ arg2_val.has_value THEN folded ELSE kept
        ELSE kept

\* Optimizer._constant_folding from position i on
RECURSIVE constant_folding_from(_, _, _, _)
constant_folding_from(quads, i, consts, new_quads) ==
    IF i > Len(quads) THEN [quads |-> new_quads, constants |-> consts]
    ELSE LET step == fold_quad(consts, quads[i])
         IN  constant_folding_from(quads, i + 1, step.constants,
                                   Append(new_quads, step.quad))

\* a pass that writes the copy of a repeated expression as an addition of 0
\* to the variable that holds it
RECURSIVE cse_from_adding(_, _, _, _)
cse_from_adding(quads, i, expressions, new_quads) ==
    IF i > Len(quads) THEN new_quads
    ELSE LET quad == quads[i]
             expr_key == <<quad.op, quad.arg1, quad.arg2>>
         IN  IF quad.op \in {"+", "-", "*", "/", "==", "!=", ">", "<", ">=", "<="}
             THEN IF has_key(expressions, expr_key)
                  THEN cse_from_adding(quads, i + 1, expressions,
                         Append(new_quads,
                           [op |-> "+", arg1 |-> dict_get(expressions, expr_key),
                            arg2 |-> IntV(0), result |-> quad.result]))
                  ELSE cse_from_adding(quads, i + 1,
                         dict_set(expressions, expr_key, quad.result),
                         Append(new_quads, quad))
             ELSE cse_from_adding(quads, i + 1, expressions, Append(new_quads, quad))

\* a pass that records the latest holder of a repeated expression, not the
\* first
RECURSIVE cse_from_latest(_, _, _, _)
cse_from_latest(quads, i, expressions, new_quads) ==
    IF i > Len(quads) THEN new_quads
    ELSE LET quad == quads[i]
             expr_key == <<quad.op, quad.arg1, quad.arg2>>
         IN  IF quad.op \in {"+", "-", "*", "/", "==", "!=", ">", "<", ">=", "<="}
             THEN IF has_key(expressions, expr_key)
                  THEN cse_from_latest(quads, i + 1,
                         dict_set(expressions, expr_key, quad.result),
                         Append(new_quads,
                           [op |-> "=", arg1 |-> dict_get(expressions, expr_key),
                            arg2 |-> [t |-> "None", n |-> 0, s |-> ""],
                            result |-> quad.result]))
                  ELSE cse_from_latest(quads, i + 1,
                         dict_set(expressions, expr_key, quad.result),
                         Append(new_quads, quad))
             ELSE cse_from_latest(quads, i + 1, expressions, Append(new_quads, quad))

\* Optimizer._common_subexpression_elimination from position i on
RECURSIVE cse_from(_, _, _, _)
cse_from(quads, i, expressions, new_quads) ==
    IF i > Len(quads) THEN new_quads
    ELSE LET quad == quads[i]
             expr_key == <<quad.op, quad.arg1, quad.arg2>>
         IN  IF quad.op \in Arithmetic \cup Relational
             THEN IF has_key(expressions, expr_key)
                  THEN cse_from(quads, i + 1, expressions,
                         Append(new_quads,
                           Quadruple("=", dict_get(expressions, expr_key), NoneV,
                                     quad.result)))
                  ELSE cse_from(quads, i + 1,
                         dict_set(expressions, expr_key, quad.result),
                         Append(new_quads, quad))
             ELSE cse_from(quads, i + 1, expressions, Append(new_quads, quad))

\* the third loop of _dead_code_elimination: is the quadruple kept?
dce_keeps(quads, quad) ==
    IF quad.op = "=" /\ startswith_t(quad.result.s)
    THEN \E k \in 1..Len(quads) :
            \/ quads[k].arg1 = quad.result
            \/ quads[k].arg2 = quad.result
            \/ (quads[k].op = "jump" /\ quads[k].result = quad.result)
    ELSE TRUE

\* the quadruples of a stream that `keeps` accepts, in order
RECURSIVE filter_from(_, _, _)
filter_from(quads, i, keeps) ==
    IF i > Len(quads) THEN <<>>
    ELSE (IF keeps[i] THEN <<quads[i]>> ELSE <<>>) \o filter_from(quads, i + 1, keeps)

\* Optimizer._dead_code_elimination (the set used_vars it collects first is
\* never read)
dead_code_elimination(quads) ==
    filter_from(quads, 1, [i \in 1..Len(quads) |-> dce_keeps(quads, quads[i])])

\* an iteration that takes a literal 2 on either side of a division
reduce_quad_either(quad) ==
    IF quad.op \in {"*", "/"} /\ quad.arg2.t = "int" /\ quad.arg2.n = 2
    THEN [op |-> IF quad.op = "*" THEN "<<" ELSE ">>", arg1 |-> quad.arg1,
          arg2 |-> [t |-> "int", n |-> 1, s |-> ""], result |-> quad.result]
    ELSE IF quad.op \in {"*", "/"} /\ quad.arg1.t = "int" /\ quad.arg1.n = 2
    THEN [op |-> IF quad.op = "*" THEN "<<" ELSE ">>", arg1 |-> quad.arg2,
          arg2 |-> [t |-> "int", n |-> 1, s |-> ""], result |-> quad.result]
    ELSE quad

\* one iteration of the loop of _strength_reduction
reduce_quad(quad) ==
    IF quad.op = "*"
    THEN IF quad.arg2 = IntV(2)
         THEN Quadruple("<<", quad.arg1, IntV(1), quad.result)
         ELSE IF quad.arg1 = IntV(2)
         THEN Quadruple("<<", quad.arg2, IntV(1), quad.result)
         ELSE quad
    ELSE IF quad.op = "/"
    THEN IF quad.arg2 = IntV(2)
         THEN Quadruple(">>", quad.arg1, IntV(1), quad.result)
         ELSE quad
    ELSE quad

\* Optimizer._strength_reduction
strength_reduction(quads) == [i \in 1..Len(quads) |-> reduce_quad(quads[i])]

Pass(stage, quads, consts) ==
    /\ pc' = stage
    /\ optimized_quads' = quads
    /\ constants' = consts
    /\ UNCHANGED analyzer_vars
    /\ UNCHANGED generator_vars

\* Optimizer(quadruples).optimize(), up to the first pass
optimize ==
    /\ pc = "returned" /\ result
    /\ IF quadruples = <<>>
       THEN Pass("optimized", <<>>, <<>>)
       ELSE Pass("folding", quadruples, <<>>)

_constant_folding ==
    /\ pc = "folding"
    /\ LET done == constant_folding_from(optimized_quads, 1, constants, <<>>)
       IN  Pass("cse", done.quads, done.constants)

_common_subexpression_elimination ==
    /\ pc = "cse"
    /\ Pass("dce", cse_from(optimized_quads, 1, <<>>, <<>>), constants)

_dead_code_elimination ==
    /\ pc = "dce"
    /\ Pass("strength", dead_code_elimination(optimized_quads), constants)

_strength_reduction ==
    /\ pc = "strength"
    /\ Pass("optimized", strength_reduction(optimized_quads), constants)

(***************************************************************************)
(* The code generator.  A line of assembly is a string; the text of the    *)
(* comments that the source writes in Chinese is given in English.  The    *)
(* generator's state is its list of lines and its counter label_count.     *)
(***************************************************************************)
\* a value inside an f-string
text(v) == IF v.t = "int" THEN ToString(v.n) ELSE IF v.t = "str" THEN v.s ELSE "None"

\* Quadruple.__repr__
quad_repr(quad) ==
    "(" \o quad.op \o ", "
        \o (IF quad.arg1.t = "None" THEN "_" ELSE text(quad.arg1)) \o ", "
        \o (IF quad.arg2.t = "None" THEN "_" ELSE text(quad.arg2)) \o ", "
        \o text(quad.result) \o ")"

\* v in self.symbol_table
in_table(table, v) == v.t = "str" /\ exists(table, v.s)

\* self.assembly.extend(lines)
Out(g, lines) == [g EXCEPT !.assembly = @ \o lines]

\* the cells that _generate_header declares: the symbols not marked is_temp
RECURSIVE data_lines(_, _)
data_lines(table, i) ==
    IF i > Len(table) THEN <<>>
    ELSE (IF table[i].is_temp THEN <<>>
          ELSE <<"    " \o table[i].name \o " dq 0  ; " \o table[i].type \o " variable">>)
         \o data_lines(table, i + 1)

_generate_header(g, table) ==
    Out(g, <<"; =========================================",
             "; x86-64 assembly generated by the small C compiler",
             "; target platform: Linux x86-64",
             "; calling convention: System V AMD64 ABI",
             "; =========================================",
             "",
             "section .data",
             "    ; data section">>
           \o data_lines(table, 1)
           \o <<"",
                "section .bss",
                "    ; uninitialized data section",
                "    ; (none)",
                "",
                "section .text",
                "    global _start",
                "",
                "_start:",
                "    ; program entry",
                "    push rbp",
                "    mov rbp, rsp",
                "">>)

_generate_footer(g) ==
    Out(g, <<"",
             "    ; program exit",
             "    mov rsp, rbp",
             "    pop rbp",
             "    mov rax, 60     ; sys_exit",
             "    xor rdi, rdi    ; exit code 0",
             "    syscall",
             "">>)

_generate_assignment(g, table, source, dest) ==
    IF source.t = "int"
    THEN Out(g, <<"    mov qword [" \o text(dest) \o "], " \o text(source)>>)
    ELSE IF source.t = "str"
    THEN IF in_table(table, source) /\ in_table(table, dest)
         THEN Out(g, <<"    mov rax, qword [" \o text(source) \o "]",
                       "    mov qword [" \o text(dest) \o "], rax">>)
         ELSE Out(g, <<"    ; assignment: " \o text(dest) \o " = " \o text(source)>>)
    ELSE Out(g, <<"    ; unsupported assignment: " \o text(dest) \o " = " \o text(source)>>)

\* the load of an operand into a register (no line for None)
load(register, operand) ==
    IF operand.t = "int" THEN <<"    mov " \o register \o ", " \o text(operand)>>
    ELSE IF operand.t = "str"
    THEN <<"    mov " \o register \o ", qword [" \o text(operand) \o "]">>
    ELSE <<>>

_generate_arithmetic(g, table, op, arg1, arg2, target) ==
    LET operation ==
            IF arg2.t = "None"
            THEN IF op \in {"+", "-", "*", "/"}
                 THEN <<"    ; error: " \o op \o " needs two operands">>
                 ELSE <<>>
            ELSE CASE op = "+" -> <<"    add rax, rbx">>
                   [] op = "-" -> <<"    sub rax, rbx">>
                   [] op = "*" -> <<"    imul rax, rbx">>
                   [] op = "/" -> <<"    xor rdx, rdx      ; clear rdx (high half of the dividend)",
                                    "    idiv rbx          ; signed division: rdx:rax / rbx">>
                   [] OTHER -> <<>>
        save == IF in_table(table, target)
                THEN <<"    mov qword [" \o text(target) \o "], rax">>
                ELSE <<"    ; result saved to: " \o text(target)>>
    IN  IF arg1.t = "None"
        THEN Out(g, <<"    ; unsupported operand 1: " \o text(arg1)>>)
        ELSE IF op \notin {"+", "-", "*", "/"}
        THEN Out(g, load("rax", arg1) \o load("rbx", arg2)
                    \o <<"    ; unknown arithmetic operation: " \o op>>)
        ELSE Out(g, load("rax", arg1) \o load("rbx", arg2) \o operation \o save)

\* cond_map of _generate_relation
cond_map(op) ==
    CASE op = "==" -> "e" [] op = "!=" -> "ne"
      [] op = ">" -> "g" [] op = "<" -> "l"
      [] op = ">=" -> "ge" [] op = "<=" -> "le"

_generate_relation(g, table, op, arg1, arg2, target) ==
    LET label_true == ".L" \o ToString(g.label_count) \o "_true"
        label_end == ".L" \o ToString(g.label_count) \o "_end"
        compared == Out(g, load("rax", arg1) \o load("rbx", arg2) \o <<"    cmp rax, rbx">>)
    IN  IF op \in {"==", "!=", ">", "<", ">=", "<="}
        THEN [Out(compared,
                  <<"    j" \o cond_map(op) \o " " \o label_true \o "  ; if the condition holds",
                    "    mov rax, 0           ; the condition does not hold: result 0",
                    "    jmp " \o label_end,
                    label_true \o ":",
                    "    mov rax, 1           ; the condition holds: result 1",
                    label_end \o ":">>
                  \o (IF in_table(table, target)
                      THEN <<"    mov qword [" \o text(target) \o "], rax">> ELSE <<>>))
              EXCEPT !.label_count = @ + 1]
        ELSE Out(compared, <<"    ; unknown relational operation: " \o op>>)

\* jump_map of _generate_jump ("" for a tag that is not a key)
jump_map(op) ==
    CASE op = "j==" -> "je" [] op = "j!=" -> "jne"
      [] op = "j>" -> "jg" [] op = "j<" -> "jl"
      [] op = "j>=" -> "jge" [] op = "j<=" -> "jle"
      [] OTHER -> ""

_generate_jump(g, op, arg1, arg2, target) ==
    IF op = "jump" THEN Out(g, <<"    jmp " \o text(target)>>)
    ELSE IF arg1.t = "None" \/ arg2.t = "None"
    THEN Out(g, (IF arg1.t = "str"
                 THEN <<"    mov rax, qword [" \o text(arg1) \o "]", "    test rax, rax">>
                 ELSE <<>>)
                \o (IF op = "j!=" THEN <<"    jnz " \o text(target)>>
                    ELSE IF op = "j==" THEN <<"    jz " \o text(target)>>
                    ELSE <<"    ; unknown jump condition: " \o op>>))
    ELSE Out(g, load("rax", arg1) \o load("rbx", arg2) \o <<"    cmp rax, rbx">>
                \o (IF jump_map(op) # ""
                    THEN <<"    " \o jump_map(op) \o " " \o text(target)>>
                    ELSE <<"    ; unknown jump: " \o op>>))

_generate_quad(g, table, quad) ==
    LET commented == Out(g, <<"    ; " \o quad_repr(quad)>>)
        op == quad.op
    IN  IF op = "=" THEN _generate_assignment(commented, table, quad.arg1, quad.result)
        ELSE IF op \in {"+", "-", "*", "/"}
        THEN _generate_arithmetic(commented, table, op, quad.arg1, quad.arg2, quad.result)
        ELSE IF op \in {"==", "!=", ">", "<", ">=", "<="}
        THEN _generate_relation(commented, table, op, quad.arg1, quad.arg2, quad.result)
        ELSE IF Len(op) >= 1 /\ SubSeq(op, 1, 1) = "j"
        THEN _generate_jump(commented, op, quad.arg1, quad.arg2, quad.result)
        ELSE IF op = "jump" THEN Out(commented, <<"    jmp " \o text(quad.result)>>)
        ELSE IF op = "label" THEN Out(commented, <<text(quad.result) \o ":">>)
        ELSE Out(commented, <<"    ; unknown operation: " \o op>>)

\* the loop of CodeGenerator.generate from position i on
RECURSIVE generate_from(_, _, _, _)
generate_from(g, table, quads, i) ==
    IF i > Len(quads) THEN g
    ELSE generate_from(_generate_quad(g, table, quads[i]), table, quads, i + 1)

\* CodeGenerator(quads, table).generate()
generated(quads, table) ==
    LET g == [assembly |-> <<>>, label_count |-> 0]
    IN  _generate_footer(generate_from(_generate_header(g, table), table, quads, 1)).assembly

\* compile_file, code generation: the generator is given the analyzer's
\* quadruples, also after a failed analysis; without quadruples or symbols
\* no generator is made
generate ==
    /\ pc = "returned"
    /\ pc' = "generated"
    /\ IF quadruples # <<>> /\ symbols # <<>>
       THEN /\ generator_quadruples' = quadruples
            /\ assembly' = generated(quadruples, symbols)
       ELSE UNCHANGED generator_vars
    /\ UNCHANGED analyzer_vars
    /\ UNCHANGED optimizer_vars

(***************************************************************************)
(* Execution of a quadruple stream: top to bottom except where a jump is   *)
(* taken.  Every variable starts at 0 (the data section declares each cell *)
(* `dq 0`); `/` truncates toward zero; a conditional jump tagged j<op> is  *)
(* taken when `arg1 op arg2` holds, one tagged j!<op> when it does not.    *)
(***************************************************************************)
MaxSteps == 40

holds(op, x, y) ==
    CASE op = "==" -> x = y
      [] op = "!=" -> x # y
      [] op = ">" -> x > y
      [] op = "<" -> x < y
      [] op = ">=" -> x >= y
      [] op = "<=" -> x <= y

\* is the conditional jump with this tag taken on the operand values x, y?
jump_taken(tag, x, y) ==
    IF \E op \in Relational : tag = "j" \o op
    THEN holds(CHOOSE op \in Relational : tag = "j" \o op, x, y)
    ELSE IF \E op \in Relational : tag = "j!" \o op
    THEN ~holds(CHOOSE op \in Relational : tag = "j!" \o op, x, y)
    ELSE FALSE

conditional_jump(op) == op # "jump" /\ Len(op) >= 1 /\ SubSeq(op, 1, 1) = "j"

\* the quotient truncated toward zero (y # 0)
truncdiv(x, y) ==
    LET ax == IF x < 0 THEN -x ELSE x
        ay == IF y < 0 THEN -y ELSE y
    IN  IF (x < 0) = (y < 0) THEN ax \div ay ELSE -(ax \div ay)

operand_value(mem, operand) ==
    IF operand.t = "int" THEN operand.n ELSE mem[operand.s]

\* the position of the definition of a label (0: not defined)
label_at(stream, name) ==
    LET hits == {i \in 1..Len(stream) : stream[i].op = "label" /\ stream[i].result = name}
    IN  IF hits = {} THEN 0 ELSE CHOOSE i \in hits : \A j \in hits : i <= j

\* the value a computing quadruple stores
computed(quad, x, y) ==
    CASE quad.op = "=" -> x
      [] quad.op = "+" -> x + y
      [] quad.op = "-" -> x - y
      [] quad.op = "*" -> x * y
      [] quad.op = "/" -> truncdiv(x, y)
      [] quad.op = "<<" -> x * (2 ^ y)
      [] quad.op = ">>" -> x \div (2 ^ y)
      [] quad.op \in Relational -> IF holds(quad.op, x, y) THEN 1 ELSE 0

\* run from position ip with `fuel` steps left
RECURSIVE Run(_, _, _, _)
Run(stream, ip, mem, fuel) ==
    IF ip > Len(stream) THEN [status |-> "halted", mem |-> mem]
    ELSE IF fuel = 0 THEN [status |-> "running", mem |-> mem]
    ELSE LET quad == stream[ip]
             x == IF quad.arg1.t = "None" THEN 0 ELSE operand_value(mem, quad.arg1)
             y == IF quad.arg2.t = "None" THEN 0 ELSE operand_value(mem, quad.arg2)
             target == label_at(stream, quad.result)
         IN  IF quad.op = "label" THEN Run(stream, ip + 1, mem, fuel - 1)
             ELSE IF quad.op = "jump" \/ (conditional_jump(quad.op) /\ jump_taken(quad.op, x, y))
             THEN IF target = 0 THEN [status |-> "trapped", mem |-> mem]
                  ELSE Run(stream, target, mem, fuel - 1)
             ELSE IF conditional_jump(quad.op) THEN Run(stream, ip + 1, mem, fuel - 1)
             ELSE IF quad.op = "/" /\ y = 0 THEN [status |-> "trapped", mem |-> mem]
             ELSE Run(stream, ip + 1,
                      [mem EXCEPT ![quad.result.s] = computed(quad, x, y)], fuel - 1)

\* the positions of the jumps taken by a run from position ip
RECURSIVE Taken(_, _, _, _)
Taken(stream, ip, mem, fuel) ==
    IF ip > Len(stream) \/ fuel = 0 THEN {}
    ELSE LET quad == stream[ip]
             x == IF quad.arg1.t = "None" THEN 0 ELSE operand_value(mem, quad.arg1)
             y == IF quad.arg2.t = "None" THEN 0 ELSE operand_value(mem, quad.arg2)
             target == label_at(stream, quad.result)
         IN  IF quad.op = "label" THEN Taken(stream, ip + 1, mem, fuel - 1)
             ELSE IF quad.op = "jump" \/ (conditional_jump(quad.op) /\ jump_taken(quad.op, x, y))
             THEN IF target = 0 THEN {ip}
                  ELSE {ip} \cup Taken(stream, target, mem, fuel - 1)
             ELSE IF conditional_jump(quad.op) THEN Taken(stream, ip + 1, mem, fuel - 1)
             ELSE IF quad.op = "/" /\ y = 0 THEN {}
             ELSE Taken(stream, ip + 1,
                        [mem EXCEPT ![quad.result.s] = computed(quad, x, y)], fuel - 1)

names == {symbols[i].name : i \in 1..Len(symbols)}

user_names == {symbols[i].name : i \in {k \in 1..Len(symbols) : ~symbols[k].is_temp}}

\* one step of a run: the position and the memory after the quadruple at ip
\* (position 0: the run has trapped)
next_config(stream, ip, mem) ==
    LET quad == stream[ip]
        x == IF quad.arg1.t = "None" THEN 0 ELSE operand_value(mem, quad.arg1)
        y == IF quad.arg2.t = "None" THEN 0 ELSE operand_value(mem, quad.arg2)
    IN  IF quad.op = "label" THEN [ip |-> ip + 1, mem |-> mem]
        ELSE IF quad.op = "jump" \/ (conditional_jump(quad.op) /\ jump_taken(quad.op, x, y))
        THEN [ip |-> label_at(stream, quad.result), mem |-> mem]
        ELSE IF conditional_jump(quad.op) THEN [ip |-> ip + 1, mem |-> mem]
        ELSE IF quad.op = "/" /\ y = 0 THEN [ip |-> 0, mem |-> mem]
        ELSE [ip |-> ip + 1, mem |-> [mem EXCEPT ![quad.result.s] = computed(quad, x, y)]]

\* does the run from position ip come back to a position with the memory it
\* had there before?  Such a run never reaches the end of the stream.
RECURSIVE Revisits(_, _, _, _, _)
Revisits(stream, ip, mem, seen, fuel) ==
    IF ip = 0 \/ ip > Len(stream) \/ fuel = 0 THEN FALSE
    ELSE IF <<ip, mem>> \in seen THEN TRUE
    ELSE LET next == next_config(stream, ip, mem)
         IN  Revisits(stream, next.ip, next.mem, seen \cup {<<ip, mem>>}, fuel - 1)

\* the outcome of executing a stream of the analysed program
Execute(stream) == Run(stream, 1, [x \in names |-> 0], MaxSteps)

(***************************************************************************)
(* The programs analysed: syntax trees the parser can build.               *)
(***************************************************************************)
MaxDecls == 2

MaxStmts == 2

SeqsUpTo(S, k) == UNION {[1..n -> S] : n \in 0..k}

Assign(name, expr) == AssignmentStatement(AssignmentExpression(name, expr))

a == Identifier("a")

b == Identifier("b")

\* declarations: every way to declare a and b in at most MaxDecls lists
IdLists == [1..1 -> {"a", "b"}] \cup [1..2 -> {"a", "b"}]

DeclaredPrograms ==
    {Program(decls, stmts) :
        decls \in SeqsUpTo(IdLists, MaxDecls),
        stmts \in {<<>>, <<Assign("b", a)>>}}

\* single statements of every form, under three declaration lists
Operands == {a, b, Number(2)}

FlatExpressions ==
    {ArithmeticExpression(l, op, r) : l \in Operands, op \in {"+", "-"}, r \in Operands}
    \cup {Term(l, op, r) : l \in Operands, op \in {"*", "/"}, r \in Operands}

NestedExpressions ==
    {ArithmeticExpression(Term(a, "*", Number(2)), "+", b),
     ArithmeticExpression(a, "+", Term(b, "*", Number(2))),
     ArithmeticExpression(ArithmeticExpression(a, "+", b), "-", Number(2)),
     Term(Term(a, "*", b), "/", Number(2))}

\* x = ( ... ) ...;  _factor returns None for a parenthesized expression: the
\* assignment keeps its target alone and the parser drops what follows it
Truncated(name) ==
    AssignmentStatement(ASTNode("AssignmentExpression", NoneV, <<Identifier(name)>>))

Expressions == Operands \cup FlatExpressions \cup NestedExpressions

\* _term and _arithmetic_expression with a parenthesized right operand:
\* _factor consumes "( ... )" and returns None, no child is added, and the
\* node keeps its left operand and its operator
TermParenthesized(left, op) == ASTNode("Term", NoneV, <<left, Operator(op)>>)

ArithmeticExpressionParenthesized(left, op) ==
    ASTNode("ArithmeticExpression", NoneV, <<left, Operator(op)>>)

\* a * (b + 2),  2 + (a),  a - (b * 2),  a * (b) + b
ParenthesizedExpressions ==
    {TermParenthesized(a, "*"),
     ArithmeticExpressionParenthesized(Number(2), "+"),
     ArithmeticExpressionParenthesized(a, "-"),
     ArithmeticExpression(TermParenthesized(a, "*"), "+", b)}

ParenthesizedPrograms ==
    {Program(<<<<"a", "b">>>>, <<Assign(x, e)>>) :
        x \in {"a", "b"}, e \in ParenthesizedExpressions}

Comparisons ==
    {BooleanExpression(l, op, r) : l \in Operands, op \in Relational, r \in Operands}
    \cup {BooleanExpression(ArithmeticExpression(a, "+", b), "<", Number(2)),
          BooleanExpression(a, ">=", Term(b, "*", Number(2)))}

ConditionExpressions ==
    Comparisons
    \cup {a, Number(2), ArithmeticExpression(a, "+", b), AssignmentExpression("a", b)}

SingleStatements ==
    {Assign(x, e) : x \in {"a", "b"}, e \in Expressions}
    \cup {AssignmentStatement(BooleanExpression(a, ">", b)), AssignmentStatement(a),
          Truncated("a"), Truncated("b")}
    \cup {IfStatement(c, <<Assign("b", Number(2))>>) : c \in ConditionExpressions}
    \cup {IfElseStatement(c, <<Assign("a", Number(2))>>, <<Assign("b", a)>>) :
            c \in ConditionExpressions}
    \cup {WhileStatement(c, <<Assign("a", ArithmeticExpression(a, "+", Number(2)))>>) :
            c \in ConditionExpressions}
    \cup {ForStatement(<<AssignmentExpression("b", Number(0)), c,
                         AssignmentExpression("b", ArithmeticExpression(b, "+", Number(1)))>>,
                       <<Assign("a", b)>>) : c \in ConditionExpressions}

SingleStatementPrograms ==
    {Program(decls, <<stmt>>) :
        decls \in {<<<<"a">>>>, <<<<"a", "b">>>>, <<<<"a", "b", "t1">>>>},
        stmt \in SingleStatements}

\* sequences of at most MaxStmts statements over a and b
SequenceStatements ==
    {Assign("a", Number(1)),
     Assign("a", ArithmeticExpression(Number(1), "-", Number(2))),
     Assign("b", a),
     Assign("a", ArithmeticExpression(a, "+", Number(1))),
     Assign("b", ArithmeticExpression(a, "+", Number(1))),
     Assign("b", Term(a, "/", Number(2))),
     Assign("b", Term(a, "*", Number(2))),
     IfElseStatement(BooleanExpression(a, ">", Number(2)),
                     <<Assign("b", Number(1))>>, <<Assign("b", Number(2))>>),
     WhileStatement(BooleanExpression(a, "<", Number(2)),
                    <<Assign("a", ArithmeticExpression(a, "+", Number(1)))>>),
     ForStatement(<<AssignmentExpression("b", Number(0)),
                    BooleanExpression(b, "<", Number(2)),
                    AssignmentExpression("b", ArithmeticExpression(b, "+", Number(1)))>>,
                  <<Assign("a", ArithmeticExpression(a, "+", b))>>)}

SequencePrograms ==
    {Program(<<<<"a", "b">>>>, stmts) : stmts \in SeqsUpTo(SequenceStatements, MaxStmts)}

\* the scenarios of the documentation, and nested control statements
ScenarioA == Program(<<<<"a">>>>, <<Assign("a", Number(10))>>)

ScenarioB ==
    Program(<<<<"a", "b", "c">>>>,
            <<Assign("a", Number(5)), Assign("b", Number(3)),
              Assign("c", ArithmeticExpression(a, "+", b))>>)

ScenarioC ==
    Program(<<<<"a", "b">>>>,
            <<Assign("a", Number(5)),
              IfElseStatement(BooleanExpression(a, ">", Number(3)),
                              <<Assign("b", Number(1))>>, <<Assign("b", Number(0))>>)>>)

ScenarioD ==
    Program(<<<<"a">>>>,
            <<Assign("a", Number(6)), Assign("a", Term(a, "*", Number(2)))>>)

ScenarioE == Program(<<>>, <<Assign("x", Number(1))>>)

\* int i; i = 0; while (i < 3) { i = i + 1; }
CountingLoop ==
    Program(<<<<"i">>>>,
            <<Assign("i", Number(0)),
              WhileStatement(BooleanExpression(Identifier("i"), "<", Number(3)),
                 <<Assign("i", ArithmeticExpression(Identifier("i"), "+", Number(1)))>>)>>)

\* int a, b; a = 5; if (a < 3) { b = 1; } else { b = 0; }; a = b + 1;
BranchThenUse ==
    Program(<<<<"a", "b">>>>,
            <<Assign("a", Number(5)),
              IfElseStatement(BooleanExpression(a, "<", Number(3)),
                              <<Assign("b", Number(1))>>, <<Assign("b", Number(0))>>),
              Assign("a", ArithmeticExpression(b, "+", Number(1)))>>)

\* int a, b, c; a = 5; a = b; c = a + 1;
CopyThenUse ==
    Program(<<<<"a", "b", "c">>>>,
            <<Assign("a", Number(5)), Assign("a", b),
              Assign("c", ArithmeticExpression(a, "+", Number(1)))>>)

\* int t1, total; t1 = 2; total = t1;  and  int total; total = 5;
TNamed ==
    {Program(<<<<"t1", "total">>>>, <<Assign("t1", Number(2)), Assign("total", Identifier("t1"))>>),
     Program(<<<<"total">>>>, <<Assign("total", Number(5))>>),
     Program(<<<<"t1">>>>, <<Assign("t1", Number(2))>>)}

Nested ==
    {Program(<<<<"a", "b">>>>,
       <<WhileStatement(BooleanExpression(a, "<", Number(2)),
           <<IfElseStatement(BooleanExpression(a, "==", b),
                <<Assign("b", Number(2))>>,
                <<Assign("a", ArithmeticExpression(a, "+", Number(1)))>>),
             ForStatement(<<AssignmentExpression("b", Number(0)),
                            BooleanExpression(b, "<", Number(2)),
                            AssignmentExpression("b", ArithmeticExpression(b, "+", Number(1)))>>,
                          <<>>),
             Assign("a", ArithmeticExpression(a, "+", Number(1)))>>)>>),
     Program(<<<<"a", "b">>>>,
       <<IfElseStatement(BooleanExpression(a, "<=", b),
           <<WhileStatement(BooleanExpression(b, "<", Number(2)),
               <<Assign("b", ArithmeticExpression(b, "+", Number(1)))>>)>>,
           <<IfStatement(BooleanExpression(a, "!=", Number(0)), <<>>),
             CompoundStatement(<<Assign("a", Number(0)), CompoundStatement(<<>>)>>)>>),
         Assign("b", a)>>),
     Program(<<<<"a">>, <<"b">>>>,
       <<ForStatement(<<AssignmentExpression("a", Number(0)),
                        BooleanExpression(a, "<", Number(2)),
                        AssignmentExpression("a", ArithmeticExpression(a, "+", Number(1)))>>,
           <<ForStatement(<<AssignmentExpression("b", a),
                            BooleanExpression(b, ">", Number(0)),
                            AssignmentExpression("b", ArithmeticExpression(b, "-", Number(1)))>>,
                          <<IfStatement(BooleanExpression(b, "==", Number(1)),
                                        <<Assign("b", Number(0))>>)>>)>>)>>),
     \* for (a = 0; ; a = a + 1) { }: the parser adds no child for the condition
     Program(<<<<"a">>>>,
       <<ForStatement(<<AssignmentExpression("a", Number(0)),
                        AssignmentExpression("a", ArithmeticExpression(a, "+", Number(1)))>>,
                      <<>>)>>)}

\* int a, b; a = 0; b = 2 / a; b = a + 2;  and
\* int a, b; a = 6; b = a / 0; b = a - 2;
DivideByZero ==
    {Program(<<<<"a", "b">>>>,
       <<Assign("a", Number(0)), Assign("b", Term(Number(2), "/", a)),
         Assign("b", ArithmeticExpression(a, "+", Number(2)))>>),
     Program(<<<<"a", "b">>>>,
       <<Assign("a", Number(6)), Assign("b", Term(a, "/", Number(0))),
         Assign("b", ArithmeticExpression(a, "-", Number(2)))>>)}

\* int a, b; a = v; if (a op 3) { b = 1; } else { b = 2; }
Branch(v, op) ==
    Program(<<<<"a", "b">>>>,
            <<Assign("a", Number(v)),
              IfElseStatement(BooleanExpression(a, op, Number(3)),
                              <<Assign("b", Number(1))>>, <<Assign("b", Number(2))>>)>>)

BranchValues == {2, 3, 5}

Branches == {Branch(v, op) : v \in BranchValues, op \in Relational}

Scenarios ==
    {ScenarioA, ScenarioB, ScenarioC, ScenarioD, ScenarioE, CountingLoop,
     BranchThenUse, CopyThenUse} \cup TNamed \cup Nested \cup DivideByZero
    \cup Branches

Programs ==
    DeclaredPrograms \cup SingleStatementPrograms \cup SequencePrograms \cup Scenarios
    \cup ParenthesizedPrograms

(***************************************************************************)
(* The specification: a program is analysed, and the stream of a           *)
(* successful analysis is optimized.                                       *)
(***************************************************************************)
Init ==
    /\ ast \in Programs
    /\ symbols = <<>>
    /\ next_temp = 1
    /\ quadruples = <<>>
    /\ errors = <<>>
    /\ next_label = 1
    /\ stack = <<>>
    /\ pc = "analyze"
    /\ result = FALSE
    /\ optimized_quads = <<>>
    /\ constants = <<>>
    /\ generator_quadruples = <<>>
    /\ assembly = <<>>

Next ==
    \/ analyze
    \/ _analyze_program
    \/ _analyze_decl_list
    \/ _analyze_assignment_stmt
    \/ _analyze_if_stmt
    \/ if_then_done
    \/ if_else_done
    \/ _analyze_while_stmt
    \/ while_body_done
    \/ _analyze_for_stmt
    \/ for_body_done
    \/ _analyze_statement
    \/ loop_end
    \/ analyze_return
    \/ optimize
    \/ _constant_folding
    \/ _common_subexpression_elimination
    \/ _dead_code_elimination
    \/ _strength_reduction
    \/ generate

Spec == Init /\ [][Next]_vars

(***************************************************************************)
(* The optimizer on its own: Optimizer(quadruples) accepts any list of     *)
(* quadruples (test_optimizer builds one by hand).  The streams are over   *)
(* the user variables x, y and the temporaries t1, t2.                     *)
(***************************************************************************)
MaxQuads == 3

X == StrV("x")

Y == StrV("y")

T1 == StrV("t1")

T2 == StrV("t2")

StreamQuads ==
    {Quadruple("=", IntV(0), NoneV, Y),
     Quadruple("=", IntV(-3), NoneV, X),
     Quadruple("=", T1, NoneV, X),
     Quadruple("+", X, Y, T1),
     Quadruple("+", X, Y, T2),
     Quadruple("/", X, Y, T1),
     Quadruple("/", X, IntV(0), T2),
     Quadruple("/", X, IntV(2), T1),
     Quadruple("*", X, IntV(2), T2),
     Quadruple("*", IntV(2), Y, T1),
     Quadruple("<", X, Y, T2),
     Quadruple("-", Y, IntV(3), T2)}

Streams == SeqsUpTo(StreamQuads, MaxQuads)

StreamSymbols ==
    <<[name |-> "x", type |-> "int", is_temp |-> FALSE],
      [name |-> "y", type |-> "int", is_temp |-> FALSE],
      [name |-> "t1", type |-> "int", is_temp |-> TRUE],
      [name |-> "t2", type |-> "int", is_temp |-> TRUE]>>

OptimizerInit ==
    /\ ast = Program(<<>>, <<>>)
    /\ symbols = StreamSymbols
    /\ next_temp = 3
    /\ quadruples \in Streams
    /\ errors = <<>>
    /\ next_label = 1
    /\ stack = <<>>
    /\ pc = "returned"
    /\ result = TRUE
    /\ optimized_quads = <<>>
    /\ constants = <<>>
    /\ generator_quadruples = <<>>
    /\ assembly = <<>>

OptimizerNext ==
    \/ optimize
    \/ _constant_folding
    \/ _common_subexpression_elimination
    \/ _dead_code_elimination
    \/ _strength_reduction

OptimizerSpec == OptimizerInit /\ [][OptimizerNext]_vars

(***************************************************************************)
(* The program text of the analysed tree: declared and referenced names.   *)
(***************************************************************************)
RECURSIVE identifiers_of(_)
identifiers_of(node) ==
    (IF node.node_type = "Identifier" THEN {node.value.s} ELSE {})
    \cup UNION {identifiers_of(node.children[i]) : i \in 1..Len(node.children)}

RECURSIVE concat_from(_, _)
concat_from(seqs, i) ==
    IF i > Len(seqs) THEN <<>> ELSE seqs[i] \o concat_from(seqs, i + 1)

\* the declared names, in the order of the declarations
decl_names ==
    LET at == first_child(ast, {"DeclarationSequence"})
        decls == ast.children[at].children
    IN  IF at = 0 THEN <<>>
        ELSE concat_from([d \in 1..Len(decls) |->
                            [k \in 1..Len(decls[d].children[1].children) |->
                                decls[d].children[1].children[k].value.s]], 1)

declared == {decl_names[i] : i \in 1..Len(decl_names)}

\* the names the statements mention
referenced ==
    LET at == first_child(ast, {"StatementSequence"})
    IN  IF at = 0 THEN {} ELSE identifiers_of(ast.children[at])

\* the first position of a sequence of names that repeats an earlier one (0: none)
first_repeat(seq) ==
    LET hits == {j \in 1..Len(seq) : \E i \in 1..(j - 1) : seq[i] = seq[j]}
    IN  IF hits = {} THEN 0 ELSE CHOOSE j \in hits : \A k \in hits : j <= k

mentions(quad, name) ==
    quad.arg1 = StrV(name) \/ quad.arg2 = StrV(name) \/ quad.result = StrV(name)

(***************************************************************************)
(* Declare-before-use, redeclaration, fail-fast.                           *)
(***************************************************************************)
\* C1: when the statements of a program (whose declarations are pairwise
\* distinct) mention a name that was not declared, analyze has failed with
\* the "not declared" error of such a name as its only error, and no
\* quadruple of the stream mentions an undeclared name.
C1_UndeclaredRejected ==
    (pc = "returned" /\ first_repeat(decl_names) = 0 /\ referenced \ declared # {})
    => /\ result = FALSE
       /\ \E x \in referenced \ declared :
             errors = <<"Semantic error: " \o NotDeclared(x)>>
       /\ \A i \in 1..Len(quadruples) : \A x \in referenced \ declared :
             ~mentions(quadruples[i], x)

C2_AtMostOneEntry ==
    \A i, j \in 1..Len(symbols) : symbols[i].name = symbols[j].name => i = j

C2_RepeatFails ==
    (pc = "returned" /\ first_repeat(decl_names) # 0)
    => LET j == first_repeat(decl_names)
       IN  /\ result = FALSE
           /\ errors = <<"Semantic error: " \o Redeclared(decl_names[j])>>
           /\ symbols = [i \in 1..(j - 1) |->
                           [name |-> decl_names[i], type |-> "int", is_temp |-> FALSE]]
           /\ quadruples = <<>>

C2_EntriesKept ==
    \A i \in 1..Len(symbols) : i <= Len(symbols') /\ symbols'[i] = symbols[i]

\* C2: the symbol table never holds two entries of one name, no step deletes
\* or changes an entry, and a program whose declarations repeat a name ends
\* in the Redeclared error of the first repeated name, the table holding the
\* entries made before it, the first entry of that name among them.
C2_NoRedeclaration ==
    /\ [](C2_AtMostOneEntry /\ C2_RepeatFails)
    /\ [][C2_EntriesKept]_vars

\* a declaration list repeated a name: the failed insertion left the table
\* with the one entry of that name
C2_Redeclared ==
    /\ pc = "returned"
    /\ first_repeat(decl_names) # 0
    /\ errors = <<"Semantic error: " \o Redeclared(decl_names[first_repeat(decl_names)])>>
    /\ exists(symbols, decl_names[first_repeat(decl_names)])

C3_SingleError ==
    /\ Len(errors) <= 1
    /\ errors # <<>> => pc \in {"returned", "generated"} /\ stack = <<>>
    /\ pc \notin {"analyze", "walk"} => (result = FALSE <=> errors # <<>>)

C3_NothingAfterError ==
    errors # <<>> =>
        UNCHANGED <<symbols, next_temp, quadruples, next_label, errors, stack, result>>

\* C3: at most one error is ever recorded; recording it ends the walk (the
\* call stack is empty and analyze has returned), after it no symbol,
\* quadruple or error is added, and analyze returns False exactly when an
\* error was recorded.
C3_FailFast ==
    /\ []C3_SingleError
    /\ [][C3_NothingAfterError]_vars

\* an error in the declarations: the statements were never analysed
C3_StoppedEarly ==
    /\ pc = "returned"
    /\ result = FALSE
    /\ Len(errors) = 1
    /\ first_child(ast, {"StatementSequence"}) # 0
    /\ symbols # <<>>
    /\ quadruples = <<>>

(***************************************************************************)
(* The optimizer against execution.                                        *)
(***************************************************************************)
same_user_values(plain, other) ==
    plain.status = "halted" /\ other.status = "halted"
    => \A x \in user_names : other.mem[x] = plain.mem[x]

\* C4: when the unoptimized stream and the stream optimize returns both run
\* to their end from the all-zero state, every user variable ends with the
\* same value in both.
C4_OptimizePreservesValues ==
    pc = "optimized"
    => same_user_values(Execute(quadruples), Execute(optimized_quads))

is_jump(quad) == quad.op = "jump" \/ conditional_jump(quad.op)

straight_line(stream) ==
    \A i \in 1..Len(stream) : stream[i].op # "label" /\ ~is_jump(stream[i])

\* every name a quadruple reads was assigned by an earlier quadruple
constant_inputs(stream) ==
    \A i \in 1..Len(stream) : \A operand \in {stream[i].arg1, stream[i].arg2} :
        operand.t = "str" => \E j \in 1..(i - 1) : stream[j].result = operand

\* C5: for a stream without labels and jumps whose every operand is a
\* literal or a name assigned earlier, the stream after constant folding
\* leaves every user variable with the value the unoptimized stream leaves.
C5_FoldingSound ==
    (pc = "cse" /\ straight_line(quadruples) /\ constant_inputs(quadruples))
    => same_user_values(Execute(quadruples), Execute(optimized_quads))

\* the quadruples of a stream that store into a user variable, in order
user_assignments(stream) ==
    filter_from(stream, 1,
        [i \in 1..Len(stream) |->
            /\ stream[i].op # "label" /\ ~is_jump(stream[i])
            /\ stream[i].result.s \in user_names])

\* C6: the dead-code pass keeps every quadruple that assigns to a user
\* (non-temporary) variable.
C6_UserAssignmentsKept ==
    [][pc = "dce" => user_assignments(optimized_quads') = user_assignments(optimized_quads)]_vars

(***************************************************************************)
(* The shape of the quadruples of if, while and for.                       *)
(***************************************************************************)
Label(name) == Quadruple("label", NoneV, NoneV, name)

Jump(name) == Quadruple("jump", NoneV, NoneV, name)

relational(node) == node.node_type = "BooleanExpression" /\ Len(node.children) = 3

\* the number of binary operators of an expression: one quadruple each
RECURSIVE binary_ops(_)
binary_ops(node) ==
    IF node.node_type \in {"ArithmeticExpression", "Term"} /\ Len(node.children) = 3
    THEN binary_ops(node.children[1]) + binary_ops(node.children[3]) + 1
    ELSE 0

is_temporary(table, name) ==
    \E i \in 1..Len(table) : table[i].name = name.s /\ table[i].is_temp

\* quadruples lo..hi of s compute into temporaries
computes(s, table, lo, hi) ==
    \A k \in lo..hi : s[k].op \in Arithmetic /\ is_temporary(table, s[k].result)

\* arg is the operand an expression contributes: the identifier or literal
\* itself, or the temporary of the expression's last quadruple, at position at
operand_is(node, arg, s, table, at) ==
    IF node.node_type \in {"Identifier", "Number"} THEN arg = node.value
    ELSE arg = s[at].result /\ is_temporary(table, arg)

complement(op) ==
    CASE op = "==" -> "!=" [] op = "!=" -> "=="
      [] op = ">" -> "<=" [] op = "<=" -> ">"
      [] op = "<" -> ">=" [] op = ">=" -> "<"

Values == -1..1

\* a jump with this tag is taken exactly when `x op y` does not hold
taken_when_false(tag, op) ==
    \A x, y \in Values : jump_taken(tag, x, y) <=> ~holds(op, x, y)

\* the quadruples from..to of s neither define nor target the two labels
apart(s, from, to, labels) ==
    \A k \in from..to : (s[k].op = "label" \/ is_jump(s[k])) => s[k].result \notin labels

block_is_empty(node) == node.children = <<>>

\* the control statement that the step about to be taken completes
Completing(fn) == pc = "walk" /\ stack # <<>> /\ Top.fn = fn

\* the positions of the condition's quadruples and jump, the condition
\* starting after position `from`: operand quadruples, then the jump to
\* `target` tagged with the negation of the operator
negated_jump(s, table, from, cond, jump_at, target) ==
    LET left == cond.children[1]
        right == cond.children[3]
        op == cond.children[2].value.s
        nl == binary_ops(left)
        nr == binary_ops(right)
    IN  /\ jump_at = from + nl + nr + 1
        /\ computes(s, table, from + 1, from + nl + nr)
        /\ s[jump_at].op \in {"j!" \o op, "j" \o complement(op)}
        /\ taken_when_false(s[jump_at].op, op)
        /\ operand_is(left, s[jump_at].arg1, s, table, from + nl)
        /\ operand_is(right, s[jump_at].arg2, s, table, from + nl + nr)
        /\ s[jump_at].result = target

C7_Completed ==
    (Completing("_analyze_if_stmt") /\ Top.i = 2 /\ relational(Top.node.children[1]))
    => LET f == Top
           s == quadruples'
           n == Len(s)
           blocks == compound_stmts_from(f.node, 1)
       IN  /\ f.false_label # f.end_label
           /\ negated_jump(s, symbols', f.base, f.node.children[1], f.jump_at, f.false_label)
           /\ s[n] = Label(f.end_label)
           /\ \E k \in (f.jump_at + 1)..(n - 2) :
                 /\ s[k] = Jump(f.end_label)
                 /\ s[k + 1] = Label(f.false_label)
                 /\ apart(s, f.base + 1, f.jump_at - 1, {f.false_label, f.end_label})
                 /\ apart(s, f.jump_at + 1, k - 1, {f.false_label, f.end_label})
                 /\ apart(s, k + 2, n - 1, {f.false_label, f.end_label})
                 /\ (k = f.jump_at + 1) = block_is_empty(blocks[1])
                 /\ (k + 2 = n) = (Len(blocks) < 2 \/ block_is_empty(blocks[2]))
                 \* an if statement outside every loop runs once: one jump is taken
                 /\ (\A j \in 1..(Len(stack) - 1) :
                        stack[j].fn \notin {"_analyze_while_stmt", "_analyze_for_stmt"})
                    => \A mem \in [{symbols'[i].name : i \in 1..Len(symbols')} -> {0, 3}] :
                          Cardinality(Taken(s, f.base + 1, mem, MaxSteps) \cap {f.jump_at, k}) = 1

\* C7: when the analysis of an if statement on a comparison `l op r`
\* completes, the statement has two distinct labels and its quadruples are
\* the operands' quadruples, one conditional jump on l and r to the false
\* label tagged with the negation of op, THEN's quadruples, the jump to the
\* end label, the false label, ELSE's quadruples and the end label; run
\* outside a loop, exactly one of its two jumps is taken.
C7_IfShape == [][C7_Completed]_vars

\* the quadruples of an assignment expression end at position at of s: its
\* operators' quadruples, then the store into its target
assignment_ends(s, table, expr, at) ==
    LET n == binary_ops(expr.children[2])
    IN  /\ computes(s, table, at - n, at - 1)
        /\ s[at].op = "=" /\ s[at].arg2 = NoneV
        /\ s[at].result = expr.children[1].value
        /\ operand_is(expr.children[2], s[at].arg1, s, table, at - 1)

\* the number of quadruples of an assignment expression
assignment_quads(expr) == binary_ops(expr.children[2]) + 1

\* the head of a loop whose start label is at position p of s: the start
\* label, the condition's quadruples, the jump to the end label that is
\* taken exactly when the condition is false
loop_head(f, s, table, p, cond) ==
    /\ s[p] = Label(f.start_label)
    /\ f.start_label # f.end_label
    /\ \A k \in 1..Len(s) : s[k] = Label(f.start_label) => k = p
    /\ IF relational(cond)
       THEN negated_jump(s, table, p, cond, f.jump_at, f.end_label)
       ELSE \* an assignment as condition: false when the value stored is 0
            LET compared == s[f.jump_at - 1]
            IN  /\ cond.node_type = "AssignmentExpression"
                /\ f.jump_at = p + assignment_quads(cond) + 2
                /\ assignment_ends(s, table, cond, f.jump_at - 2)
                /\ compared = Quadruple("==", cond.children[1].value, IntV(0),
                                        compared.result)
                /\ is_temporary(table, compared.result)
                /\ s[f.jump_at] = Quadruple("j!=", compared.result, IntV(0), f.end_label)
                /\ \A v \in Values :
                      jump_taken(s[f.jump_at].op, computed(compared, v, 0), 0) <=> (v = 0)

frames_of(fn) == {i \in 1..Len(stack) : stack[i].fn = fn}

C8_Head ==
    \A i \in frames_of("_analyze_while_stmt") :
        loop_head(stack[i], quadruples, symbols, stack[i].base + 1,
                  stack[i].node.children[1])

C8_Completed ==
    Completing("_analyze_while_stmt")
    => LET f == Top
           m == Len(quadruples)
       IN  /\ quadruples' = quadruples \o <<Jump(f.start_label), Label(f.end_label)>>
           /\ apart(quadruples, f.jump_at + 1, m, {f.start_label, f.end_label})
           /\ (m = f.jump_at) = block_is_empty(f.node.children[2])
           /\ loop_head(f, quadruples', symbols', f.base + 1, f.node.children[1])

\* the step about to be taken analyses a statement of this type
Entering(node_type) == InLoop("_analyze_stmt_list") /\ Child.node_type = node_type

\* the step raised nothing, or an undeclared identifier or a redeclaration
no_shape_error(node) ==
    \/ errors' = errors
    \/ \E x \in identifiers_of(node) : errors' = <<"Semantic error: " \o NotDeclared(x)>>
    \/ \E n \in 1..next_temp :
          errors' = <<"Semantic error: " \o Redeclared("t" \o ToString(n))>>

\* a while statement with its condition and its body
C8_Entered ==
    (Entering("WhileStatement") /\ Len(Child.children) = 2) => no_shape_error(Child)

\* C8: a while statement, whatever its condition, is translated (its
\* analysis raises nothing but an undeclared identifier or a redeclaration);
\* it has two distinct labels and its quadruples are the start label, the
\* condition's quadruples and one conditional jump to the end label that is
\* taken exactly when the condition is false, BODY's quadruples, the jump
\* back to the start label, and the end label.
C8_WhileShape == []C8_Head /\ [][C8_Entered /\ C8_Completed]_vars

C9_Head ==
    \A i \in frames_of("_analyze_for_stmt") :
        LET f == stack[i]
            init == f.node.children[1]
            p == f.base + assignment_quads(init) + 1
        IN  init.node_type = "AssignmentExpression"
            => /\ assignment_ends(quadruples, symbols, init, p - 1)
               /\ loop_head(f, quadruples, symbols, p, f.node.children[2])

\* a for statement with its three expressions and its body
C9_Entered ==
    (Entering("ForStatement") /\ Len(Child.children) = 4) => no_shape_error(Child)

C9_Completed ==
    (Completing("_analyze_for_stmt") /\ errors' = errors
        /\ Top.node.children[3].node_type = "AssignmentExpression")
    => LET f == Top
           m == Len(quadruples)
           step == f.node.children[3]
           n == assignment_quads(step)
           s == quadruples'
       IN  /\ Len(s) = m + n + 2
           /\ SubSeq(s, 1, m) = quadruples
           /\ apart(quadruples, f.jump_at + 1, m, {f.start_label, f.end_label})
           /\ (m = f.jump_at) = block_is_empty(f.node.children[4])
           /\ assignment_ends(s, symbols', step, m + n)
           /\ s[m + n + 1] = Jump(f.start_label)
           /\ s[m + n + 2] = Label(f.end_label)

\* C9: a for statement, whatever its condition, is translated (its analysis
\* raises nothing but an undeclared identifier or a redeclaration); with
\* assignments as INIT and STEP its quadruples are INIT's quadruples, once
\* and before the start label; the start label, the condition's quadruples
\* and the jump to the end label taken exactly when the condition is false;
\* BODY's quadruples; STEP's quadruples after all of them and immediately
\* before the jump back to the start label; the end label.
C9_ForShape == []C9_Head /\ [][C9_Entered /\ C9_Completed]_vars

(***************************************************************************)
(* Labels.                                                                 *)
(***************************************************************************)
L(n) == StrV("L" \o ToString(n))

definitions_of(name) == {k \in 1..Len(quadruples) : quadruples[k] = Label(name)}

control == {"_analyze_if_stmt", "_analyze_while_stmt", "_analyze_for_stmt"}

C10_Defined ==
    /\ \A k \in 1..Len(quadruples) :
          (quadruples[k].op = "label" \/ is_jump(quadruples[k]))
          => \E n \in 1..(next_label - 1) : quadruples[k].result = L(n)
    /\ \A n \in 1..(next_label - 1) : Cardinality(definitions_of(L(n))) <= 1
    /\ (pc \notin {"analyze", "walk"} /\ result)
       => /\ \A n \in 1..(next_label - 1) : Cardinality(definitions_of(L(n))) = 1
          /\ \A k \in 1..Len(quadruples) :
                is_jump(quadruples[k]) => definitions_of(quadruples[k].result) # {}

\* a step that enters an if, while or for statement hands out the labels
\* numbered next_label and next_label + 1
C10_HandedOut ==
    /\ next_label' >= next_label
    /\ (Len(stack') > Len(stack) /\ stack'[Len(stack) + 1].fn \in control)
       => LET f == stack'[Len(stack) + 1]
              first == IF f.fn = "_analyze_if_stmt" THEN f.false_label ELSE f.start_label
          IN  /\ first = L(next_label)
              /\ f.end_label = L(next_label + 1)
              /\ next_label' = next_label + 2

\* C10: labels are handed out as L<n> with n the value of a counter that
\* only grows, two fresh ones per control statement; no label is defined
\* twice; after a successful analysis every label handed out is defined by
\* exactly one label quadruple and every jump targets a defined label.
C10_Labels == []C10_Defined /\ [][C10_HandedOut]_vars

\* nested control statements were analysed: six labels, all defined
C10_NestedAnalysed ==
    /\ pc = "returned" /\ result
    /\ next_label >= 7
    /\ \E k \in 1..Len(quadruples) : conditional_jump(quadruples[k].op)
    /\ \E k \in 1..Len(quadruples) : quadruples[k].op = "jump"

(***************************************************************************)
(* Temporaries.                                                            *)
(***************************************************************************)
temp(n) == "t" \o ToString(n)

\* the entries of a symbol table that are marked is_temp, in insertion order
temporaries(table) == SelectSeq(table, LAMBDA e : e.is_temp)

\* the temporaries of the table are t<n> below the counter, n growing in
\* insertion order, and no two quadruples have the same temporary as result
C11_Distinct ==
    /\ LET temps == temporaries(symbols)
       IN  \A i \in 1..Len(temps) :
              \E n \in 1..(next_temp - 1) :
                 /\ temps[i].name = temp(n)
                 /\ \A j \in 1..(i - 1) : \E m \in 1..(n - 1) : temps[j].name = temp(m)
    /\ \A j, k \in 1..Len(quadruples) :
          (j < k /\ is_temporary(symbols, quadruples[j].result))
          => quadruples[j].result # quadruples[k].result

\* the calls of new_temp made by a step: each successful one adds one entry
\* marked is_temp, named by the counter's value at the call (the last call
\* of a failing step may be the one that raised)
C11_Returned ==
    LET added == SubSeq(symbols', Len(symbols) + 1, Len(symbols'))
        made == temporaries(added)
        calls == next_temp' - next_temp
    IN  /\ calls >= 0
        /\ Len(symbols') >= Len(symbols)
        /\ SubSeq(symbols', 1, Len(symbols)) = symbols
        /\ Len(made) = calls \/ (errors' # errors /\ Len(made) = calls - 1)
        /\ \A i \in 1..Len(made) : made[i].name = temp(next_temp + i - 1)
        /\ \A i \in 1..Len(quadruples') :
              (i > Len(quadruples) /\ quadruples'[i].op \in Arithmetic \cup Relational)
              => \E k \in 1..Len(made) : quadruples'[i].result = StrV(made[k].name)

\* C11: every successful call of new_temp returns t<n> with n greater than
\* that of every temporary returned before and inserts it marked is_temp;
\* the quadruples of expression translation have temporaries of the same
\* step as results, and no two quadruples share a temporary as result.
C11_FreshTemporaries == []C11_Distinct /\ [][C11_Returned]_vars

\* an analysis that allocated two temporaries and used both as results
C11_TwoTemporaries ==
    /\ pc = "returned" /\ result
    /\ next_temp >= 3
    /\ \E j, k \in 1..Len(quadruples) :
          quadruples[j].result = StrV(temp(1)) /\ quadruples[k].result = StrV(temp(2))

(***************************************************************************)
(* The passes of the optimizer.                                            *)
(***************************************************************************)
\* the stream the CSE pass was given: the output of constant folding
folded == constant_folding_from(quadruples, 1, <<>>, <<>>).quads

\* C12: the CSE pass applied to its own output gives that output again,
\* quadruple for quadruple.
C12_CseIdempotent ==
    pc = "dce" => cse_from(optimized_quads, 1, <<>>, <<>>) = optimized_quads

\* the CSE pass has replaced a repeated expression by a copy
C12_CseRewrote ==
    /\ pc = "dce"
    /\ optimized_quads # folded
    /\ \E k \in 1..Len(folded) :
          folded[k].op \in Arithmetic /\ optimized_quads[k].op = "="

XValues == -3..3

\* the value a computing quadruple stores when every variable holds v
stored(quad, v) ==
    computed(quad,
             IF quad.arg1.t = "int" THEN quad.arg1.n ELSE v,
             IF quad.arg2.t = "int" THEN quad.arg2.n ELSE v)

\* the quadruple computes a value on v (it is no division by zero)
computable(quad, v) ==
    /\ quad.op \in Arithmetic
    /\ quad.op = "/" => (IF quad.arg2.t = "int" THEN quad.arg2.n ELSE v) # 0

\* the strength reduction pass, quadruple by quadruple
C13_Reduced ==
    pc = "strength"
    => /\ Len(optimized_quads') = Len(optimized_quads)
       /\ \A i \in 1..Len(optimized_quads) :
             LET quad == optimized_quads[i]
                 reduced == optimized_quads'[i]
             IN  /\ reduced.result = quad.result
                 /\ \A v \in XValues :
                       computable(quad, v) => stored(reduced, v) = stored(quad, v)

\* C13: the quadruple that strength reduction puts in the place of a
\* multiplication or division by 2 stores the same result as the quadruple
\* it replaces, for every value of the operand, negative and odd included.
C13_StrengthReductionEquivalent == [][C13_Reduced]_vars

\* (=, value, _, name)
Store(value, name) == Quadruple("=", value, NoneV, StrV(name))

\* int a,b,c; a=5; b=3; c=a+b; has been folded
C14_Folded == ast = ScenarioB /\ pc = "cse"

\* C14: after constant folding the stream of `int a,b,c; a=5; b=3; c=a+b;`
\* is exactly (=,5,_,a), (=,3,_,b), (=,8,_,c).
C14_ScenarioBThreeQuadruples ==
    C14_Folded
    => optimized_quads = <<Store(IntV(5), "a"), Store(IntV(3), "b"), Store(IntV(8), "c")>>

\* C14, amended: after constant folding the stream is (=,5,_,a), (=,3,_,b),
\* (=,8,_,t1), (=,t1,_,c): the folded literal 8 is stored into the
\* temporary of a+b, and c is still assigned from that temporary.
C14_ScenarioBFolded ==
    C14_Folded
    => /\ optimized_quads = <<Store(IntV(5), "a"), Store(IntV(3), "b"),
                               Store(IntV(8), "t1"), Store(StrV("t1"), "c")>>
       /\ is_temporary(symbols, StrV("t1"))

\* int a; a = a * 2;
DoubleUnknown == Program(<<<<"a">>>>, <<Assign("a", Term(a, "*", Number(2)))>>)

\* int a; a=6; a=a*2; has been optimized
C15_Optimized == ast = ScenarioD /\ pc = "optimized"

\* C15: the optimized stream of `int a; a=6; a=a*2;` contains the left
\* shift by 1 that strength reduction puts in the place of the multiply,
\* with the same operand and result.
C15_ScenarioDShift ==
    C15_Optimized
    => \E k \in 1..Len(optimized_quads) :
          optimized_quads[k] = Quadruple("<<", StrV("a"), IntV(1), StrV("t1"))

\* C15, amended: constant folding runs first and replaces the multiply of
\* `int a; a=6; a=a*2;` by the literal 12, so the optimized stream is
\* (=,6,_,a), (=,12,_,t1), (=,t1,_,a) and holds no shift; the multiply is
\* rewritten into a left shift by 1 with the same operand and result when
\* its operand is not a known constant, as in `int a; a=a*2;`.
C15_ScenarioDFolded ==
    /\ C15_Optimized
       => optimized_quads = <<Store(IntV(6), "a"), Store(IntV(12), "t1"),
                              Store(StrV("t1"), "a")>>
    /\ (ast = DoubleUnknown /\ pc = "optimized")
       => optimized_quads = <<Quadruple("<<", StrV("a"), IntV(1), StrV("t1")),
                              Store(StrV("t1"), "a")>>

\* the constant map when the folding loop reaches position i of the stream
consts_before(i) ==
    constant_folding_from(SubSeq(optimized_quads, 1, i - 1), 1, <<>>, <<>>).constants

\* both operands resolve to literals, directly or through the map
resolves(consts, quad) ==
    /\ quad.arg1.t = "int" \/ (quad.arg1.t = "str" /\ has_key(consts, quad.arg1.s))
    /\ quad.arg2.t = "int" \/ (quad.arg2.t = "str" /\ has_key(consts, quad.arg2.s))

\* the literal an operand resolves to
resolved(consts, operand) ==
    IF operand.t = "int" THEN operand.n ELSE dict_get(consts, operand.s)

\* a division of two resolved operands by 0
zero_division(consts, quad) ==
    quad.op = "/" /\ resolves(consts, quad) /\ resolved(consts, quad.arg2) = 0

\* every pass that is due yields a stream: as long as its input, no longer
\* for dead-code elimination
C16_PassesRun ==
    LET n == Len(optimized_quads)
    IN  /\ pc = "folding"
           => Len(constant_folding_from(optimized_quads, 1, constants, <<>>).quads) = n
        /\ pc = "cse" => Len(cse_from(optimized_quads, 1, <<>>, <<>>)) = n
        /\ pc = "dce" => Len(dead_code_elimination(optimized_quads)) <= n
        /\ pc = "strength" => Len(strength_reduction(optimized_quads)) = n

\* the folding pass on a stream with divisions by 0
C16_Kept ==
    pc = "folding"
    => /\ pc' = "cse"
       /\ Len(optimized_quads') = Len(optimized_quads)
       /\ \A i \in 1..Len(optimized_quads) :
             LET quad == optimized_quads[i]
                 consts == consts_before(i)
             IN  /\ zero_division(consts, quad)
                    => /\ optimized_quads'[i] = quad
                       /\ consts_before(i + 1) = consts
                 /\ (quad.op \in Arithmetic /\ resolves(consts, quad)
                        /\ ~zero_division(consts, quad))
                    => /\ optimized_quads'[i].op = "="
                       /\ optimized_quads'[i].arg1.t = "int"
                       /\ optimized_quads'[i].result = quad.result

\* C16: a division whose divisor resolves to 0 is kept unchanged at its
\* position by constant folding, no constant is recorded for its result,
\* the quadruples after it are folded as usual, and every optimizer pass
\* runs to its end on the stream of every successful analysis.
C16_ZeroDivisorKept == []C16_PassesRun /\ [][C16_Kept]_vars

\* folding has kept a division by 0 and folded a quadruple after it
C16_KeptAndWentOn ==
    /\ pc = "cse"
    /\ \E i, j \in 1..Len(optimized_quads) :
          /\ i < j
          /\ quadruples[i].op = "/" /\ optimized_quads[i] = quadruples[i]
          /\ quadruples[i].arg2 \in {IntV(0), StrV("a")}
          /\ quadruples[j].op \in {"+", "-"} /\ optimized_quads[j].op = "="


(***************************************************************************)
(* C17.  The lines that the generator writes for one quadruple.            *)
(***************************************************************************)
quad_lines(table, quad) ==
    _generate_quad([assembly |-> <<>>, label_count |-> 0], table, quad).assembly

\* a line that holds a comment and nothing else
is_comment(line) == Len(line) >= 5 /\ SubSeq(line, 1, 5) = "    ;"

\* the quadruple ends in one of the generator's "unknown ..." branches
unrecognised(quad) ==
    IF quad.op \in {"=", "+", "-", "*", "/", "==", "!=", ">", "<", ">=", "<=",
                    "jump", "label"}
    THEN FALSE
    ELSE IF Len(quad.op) >= 1 /\ SubSeq(quad.op, 1, 1) = "j"
    THEN IF quad.arg1.t = "None" \/ quad.arg2.t = "None"
         THEN quad.op \notin {"j!=", "j=="}
         ELSE jump_map(quad.op) = ""
    ELSE TRUE

\* the assembly holds line at some position
has_line(line) == \E k \in 1..Len(assembly) : assembly[k] = line

\* C17: the generator does not fail on the stream it is given, every
\* quadruple of the stream is reached (its comment line is written and the
\* footer closes the text), and a quadruple whose operator the generator
\* does not recognise yields comment lines only.
C17_UnrecognisedOnlyComments ==
    (pc = "generated" /\ generator_quadruples # <<>>) =>
        /\ Len(assembly) > 0
        /\ assembly[Len(assembly) - 1] = "    syscall"
        /\ \A i \in 1..Len(generator_quadruples) :
              LET quad == generator_quadruples[i]
                  lines == quad_lines(symbols, quad)
              IN  /\ has_line("    ; " \o quad_repr(quad))
                  /\ unrecognised(quad) =>
                        \A k \in 1..Len(lines) : is_comment(lines[k])


(***************************************************************************)
(* C18.  Optimizer(quads).optimize() as one function: the four passes in   *)
(* the order of optimize.                                                  *)
(***************************************************************************)
Optimized(quads) ==
    IF quads = <<>> THEN <<>>
    ELSE strength_reduction(
             dead_code_elimination(
                 cse_from(constant_folding_from(quads, 1, <<>>, <<>>).quads,
                          1, <<>>, <<>>)))

\* C18: the stream that compile_file hands to the code generator is the
\* optimizer's output for the analyzer's stream.
C18_OptimizedHandedOver ==
    (pc = "generated" /\ generator_quadruples # <<>>) =>
        generator_quadruples = Optimized(quadruples)


(***************************************************************************)
(* C19.  Arithmetic expressions on the right of an assignment.             *)
(***************************************************************************)
\* the binary operators that the parser read in an expression
RECURSIVE operators(_)
operators(node) ==
    IF node.node_type \in {"ArithmeticExpression", "Term"}
    THEN 1 + operators(node.children[1])
           + (IF Len(node.children) = 3 THEN operators(node.children[3]) ELSE 0)
    ELSE 0

ArithmeticExpressions ==
    FlatExpressions \cup NestedExpressions \cup ParenthesizedExpressions

\* the stream of `x = e;`: one quadruple for each operator of e, each into
\* a temporary of its own that exactly one later quadruple reads, every
\* temporary read after it was written, and the last one stored into x
translated(x, e) ==
    LET n == operators(e)
    IN  /\ result
        /\ errors = <<>>
        /\ Len(quadruples) = n + 1
        /\ computes(quadruples, symbols, 1, n)
        /\ \A j, k \in 1..n : quadruples[j].result = quadruples[k].result => j = k
        /\ \A k \in 1..n :
              /\ \E j \in (k + 1)..(n + 1) :
                    /\ quadruples[k].result \in {quadruples[j].arg1, quadruples[j].arg2}
                    /\ \A i \in 1..(n + 1) :
                          quadruples[k].result \in {quadruples[i].arg1, quadruples[i].arg2}
                              => i = j
              /\ \A arg \in {quadruples[k].arg1, quadruples[k].arg2} :
                    is_temporary(symbols, arg) =>
                        \E j \in 1..(k - 1) : quadruples[j].result = arg
        /\ quadruples[n + 1].op = "="
        /\ quadruples[n + 1].arg1 = quadruples[n].result
        /\ quadruples[n + 1].result = StrV(x)

\* C19: for every arithmetic expression that the parser accepts, nested and
\* parenthesized ones included, the analysis of `int a, b; x = e;` succeeds
\* and emits one quadruple per binary operator, sub-expressions first, each
\* into a fresh temporary that the enclosing quadruple uses.
C19_ArithmeticTranslated ==
    \A x \in {"a", "b"}, e \in ArithmeticExpressions :
        (pc = "returned" /\ ast = Program(<<<<"a", "b">>>>, <<Assign(x, e)>>))
            => translated(x, e)

\* the same for the expressions without parentheses
C19_Unparenthesized ==
    \A x \in {"a", "b"}, e \in FlatExpressions \cup NestedExpressions :
        (pc = "returned" /\ ast = Program(<<<<"a", "b">>>>, <<Assign(x, e)>>))
            => translated(x, e)


(***************************************************************************)
(* C20.  Conditions without a relational operator.  _boolean_expression    *)
(* returns such a condition as it is: an Identifier, a Number or an        *)
(* arithmetic node, not a BooleanExpression.                               *)
(***************************************************************************)
BareConditions == {a, Number(2), ArithmeticExpression(a, "+", b)}

BareConditionStatements ==
    {IfStatement(c, <<Assign("b", Number(2))>>) : c \in BareConditions}
    \cup {IfElseStatement(c, <<Assign("a", Number(2))>>, <<Assign("b", a)>>) :
            c \in BareConditions}
    \cup {WhileStatement(c, <<Assign("a", ArithmeticExpression(a, "+", Number(2)))>>) :
            c \in BareConditions}
    \cup {ForStatement(<<AssignmentExpression("b", Number(0)), c,
                         AssignmentExpression("b", ArithmeticExpression(b, "+", Number(1)))>>,
                       <<Assign("a", b)>>) : c \in BareConditions}

\* position k holds an equality quadruple against the literal 0 into a
\* temporary, and position k + 1 a conditional jump on that temporary
tested_against_zero(k) ==
    /\ k + 1 <= Len(quadruples)
    /\ quadruples[k].op \in {"==", "!="}
    /\ IntV(0) \in {quadruples[k].arg1, quadruples[k].arg2}
    /\ is_temporary(symbols, quadruples[k].result)
    /\ Len(quadruples[k + 1].op) > 1
    /\ SubSeq(quadruples[k + 1].op, 1, 1) = "j"
    /\ quadruples[k + 1].op # "jump"
    /\ quadruples[k].result \in {quadruples[k + 1].arg1, quadruples[k + 1].arg2}

\* C20: the analysis of an if, while or for statement whose condition has no
\* relational operator succeeds, and its stream holds an equality quadruple
\* of the condition's value against 0 into a temporary, followed by a
\* conditional jump on that temporary.
C20_BareConditionTested ==
    \A stmt \in BareConditionStatements :
        (pc = "returned" /\ ast = Program(<<<<"a", "b">>>>, <<stmt>>)) =>
            /\ result
            /\ errors = <<>>
            /\ \E k \in 1..Len(quadruples) : tested_against_zero(k)

(***************************************************************************)
(* C21.  The literal that folding writes for a division.                   *)
(***************************************************************************)
C21_Truncated ==
    pc = "folding"
    => \A i \in 1..Len(optimized_quads) :
          LET quad == optimized_quads[i]
              consts == consts_before(i)
          IN  (quad.op = "/" /\ resolves(consts, quad)
                 /\ resolved(consts, quad.arg2) # 0)
              => optimized_quads'[i] =
                    Quadruple("=",
                              IntV(truncdiv(resolved(consts, quad.arg1),
                                            resolved(consts, quad.arg2))),
                              NoneV, quad.result)

\* C21: constant folding replaces a division of two known integers with
\* non-zero divisor by the assignment of the quotient truncated toward zero.
C21_FoldedQuotientTruncates == [][C21_Truncated]_vars

(***************************************************************************)
(* C22.  What dead-code elimination removes.                               *)
(***************************************************************************)
\* an assignment into a compiler temporary that no quadruple reads
dead_assignment(quads, i) ==
    /\ quads[i].op = "="
    /\ is_temporary(symbols, quads[i].result)
    /\ \A k \in 1..Len(quads) :
          quads[k].arg1 # quads[i].result /\ quads[k].arg2 # quads[i].result

C22_Removed ==
    pc = "dce"
    => optimized_quads' =
          filter_from(optimized_quads, 1,
                      [i \in 1..Len(optimized_quads) |->
                          ~dead_assignment(optimized_quads, i)])

\* C22: dead-code elimination removes the assignments into temporaries that
\* no quadruple uses as an operand and keeps every other quadruple, unchanged
\* and in order.
C22_OnlyDeadTemporariesRemoved == [][C22_Removed]_vars

(***************************************************************************)
(* C23.  What common-subexpression elimination rewrites.                   *)
(***************************************************************************)
same_expression(p, q) == p.op = q.op /\ p.arg1 = q.arg1 /\ p.arg2 = q.arg2

\* the first position of the stream that holds the expression of position i
first_holder(quads, i) ==
    CHOOSE j \in 1..i :
        /\ same_expression(quads[j], quads[i])
        /\ \A k \in 1..(j - 1) : ~same_expression(quads[k], quads[i])

C23_Rewritten ==
    pc = "cse"
    => /\ pc' = "dce"
       /\ Len(optimized_quads') = Len(optimized_quads)
       /\ \A i \in 1..Len(optimized_quads) :
             LET quad == optimized_quads[i]
                 first == first_holder(optimized_quads, i)
             IN  optimized_quads'[i] =
                     IF quad.op \in Arithmetic \cup Relational /\ first < i
                     THEN Quadruple("=", optimized_quads[first].result, NoneV,
                                    quad.result)
                     ELSE quad

\* C23: the CSE pass keeps the first arithmetic or relational quadruple with
\* a given operator and operands, replaces every later one with the same
\* triple by a copy of the first one's result into its own result, and
\* passes every other quadruple through; length and order are kept.
C23_CseFirstKept == [][C23_Rewritten]_vars

\* the pass has met an expression for the third time
C23_ThirdOccurrence ==
    /\ pc = "dce"
    /\ Len(optimized_quads) = 3
    /\ folded[1].op \in Arithmetic
    /\ same_expression(folded[1], folded[2])
    /\ same_expression(folded[1], folded[3])
    /\ folded[2].result # folded[1].result
    /\ optimized_quads[3] = Quadruple("=", folded[1].result, NoneV, folded[3].result)

(***************************************************************************)
(* C24.  What strength reduction rewrites.                                 *)
(***************************************************************************)
\* the stream the strength reduction pass was given
reduction_input == dead_code_elimination(cse_from(folded, 1, <<>>, <<>>))

C24_Rewritten ==
    pc = "strength"
    => /\ Len(optimized_quads') = Len(optimized_quads)
       /\ \A i \in 1..Len(optimized_quads) :
             LET quad == optimized_quads[i]
             IN  optimized_quads'[i] =
                     IF quad.op = "*" /\ IntV(2) \in {quad.arg1, quad.arg2}
                     THEN Quadruple("<<",
                                    IF quad.arg2 = IntV(2) THEN quad.arg1 ELSE quad.arg2,
                                    IntV(1), quad.result)
                     ELSE IF quad.op = "/" /\ quad.arg2 = IntV(2)
                     THEN Quadruple(">>", quad.arg1, IntV(1), quad.result)
                     ELSE quad

mnemonic(tag) ==
    CASE tag = "j==" -> "je"   [] tag = "j!=" -> "jne"
      [] tag = "j>" -> "jg"    [] tag = "j<" -> "jl"
      [] tag = "j>=" -> "jge"  [] tag = "j<=" -> "jle"
      [] tag = "j!==" -> "jne" [] tag = "j!!=" -> "je"
      [] tag = "j!>" -> "jle"  [] tag = "j!<" -> "jge"
      [] tag = "j!>=" -> "jl"  [] tag = "j!<=" -> "jg"

\* C25: each conditional jump with two operands that the analyzer emitted is
\* lowered to the loads of its operands, a compare and one conditional jump
\* to its target whose mnemonic is that of the tag's condition.
C25_JumpsLowered ==
    pc = "generated"
    => \A i \in 1..Len(generator_quadruples) :
          LET quad == generator_quadruples[i]
          IN  (conditional_jump(quad.op) /\ quad.arg1.t # "None" /\ quad.arg2.t # "None")
              => quad_lines(symbols, quad) =
                    <<"    ; " \o quad_repr(quad)>>
                    \o load("rax", quad.arg1) \o load("rbx", quad.arg2)
                    \o <<"    cmp rax, rbx",
                         "    " \o mnemonic(quad.op) \o " " \o text(quad.result)>>

\* the same for the tags of if statements alone
C25_IfJumpsLowered ==
    pc = "generated"
    => \A i \in 1..Len(generator_quadruples) :
          LET quad == generator_quadruples[i]
          IN  (quad.op \in {"j==", "j!=", "j>", "j<", "j>=", "j<="}
                 /\ quad.arg1.t # "None" /\ quad.arg2.t # "None")
              => quad_lines(symbols, quad) =
                    <<"    ; " \o quad_repr(quad)>>
                    \o load("rax", quad.arg1) \o load("rbx", quad.arg2)
                    \o <<"    cmp rax, rbx",
                         "    " \o mnemonic(quad.op) \o " " \o text(quad.result)>>

(***************************************************************************)
(* C26.  Memory operands and the cells of the data section.                *)
(***************************************************************************)
\* part occurs in line
contains(line, part) ==
    \E k \in 1..(Len(line) - Len(part) + 1) :
        SubSeq(line, k, k + Len(part) - 1) = part

\* line declares the cell of name
declares(line, name) ==
    LET cell == "    " \o name \o " dq "
    IN  Len(line) >= Len(cell) /\ SubSeq(line, 1, Len(cell)) = cell

\* an instruction of the assembly has name as a memory operand
memory_operand(name) ==
    \E k \in 1..Len(assembly) :
        ~is_comment(assembly[k]) /\ contains(assembly[k], "qword [" \o name \o "]")

\* C26: every name that an instruction of the generated assembly reads or
\* writes as the memory operand qword [name], user variable or temporary,
\* has exactly one cell declared in the data section.
C26_OperandsDeclared ==
    pc = "generated"
    => \A name \in names :
          memory_operand(name)
          => Cardinality({k \in 1..Len(assembly) : declares(assembly[k], name)}) = 1

\* the same for the user variables alone
C26_UserOperandsDeclared ==
    pc = "generated"
    => \A name \in user_names :
          memory_operand(name)
          => Cardinality({k \in 1..Len(assembly) : declares(assembly[k], name)}) = 1

(***************************************************************************)
(* C27.  The run of the quadruples of an if statement.                     *)
(***************************************************************************)
\* C27: the run of the stream of `a = v; if (a op 3) { b = 1; } else
\* { b = 2; }` ends, with b = 1 when `v op 3` holds and b = 2 when it does
\* not; the run for `a = 5; if (a > 3) { b = 1; } else { b = 0; }` ends
\* with b = 1.
C27_BranchFollowsCondition ==
    pc = "returned"
    => /\ \A v \in BranchValues, op \in Relational :
             ast = Branch(v, op)
             => /\ Execute(quadruples).status = "halted"
                /\ Execute(quadruples).mem["b"] = IF holds(op, v, 3) THEN 1 ELSE 2
       /\ ast = ScenarioC
          => /\ Execute(quadruples).status = "halted"
             /\ Execute(quadruples).mem["b"] = 1

(***************************************************************************)
(* C28.  Termination of the optimized stream.                              *)
(***************************************************************************)
\* the run of a stream from the all-zero memory goes round for ever
Cycles(stream) == Revisits(stream, 1, [x \in names |-> 0], {}, MaxSteps)

\* C28: when the run of the unoptimized stream reaches the end of the
\* stream, the run of the stream that optimize returns reaches its end as
\* well: it does not go round for ever.
C28_TerminationPreserved ==
    (pc = "optimized" /\ Execute(quadruples).status = "halted")
    => /\ ~Cycles(optimized_quads)
       /\ Execute(optimized_quads).status = "halted"

\* the same without the second conjunct: no cycle
C28_NoCycle ==
    (pc = "optimized" /\ Execute(quadruples).status = "halted")
    => ~Cycles(optimized_quads)

(***************************************************************************)
(* C29.  Temporaries and user variables named t<n>.                        *)
(***************************************************************************)
\* C29: when the declarations of a program repeat no name, analysis does not
\* end in a Redeclared error (such an error could only come from new_temp),
\* and no temporary of the table has the name of a user variable.
C29_TemporariesNeverClash ==
    /\ first_repeat(decl_names) = 0
       => \A k \in 1..Len(errors), name \in declared :
             errors[k] # "Semantic error: " \o Redeclared(name)
    /\ \A i, j \in 1..Len(symbols) :
          (symbols[i].is_temp /\ ~symbols[j].is_temp)
          => symbols[i].name # symbols[j].name

\* the same for programs that declare no name that starts with t
C29_WithoutTNames ==
    (\A name \in declared : ~startswith_t(name)) => C29_TemporariesNeverClash

(***************************************************************************)
(* C30.  The labels and jumps of a stream under optimization.              *)
(***************************************************************************)
\* the labels, jumps and conditional jumps of a stream, in order
skeleton(stream) ==
    filter_from(stream, 1,
                [i \in 1..Len(stream) |-> stream[i].op = "label" \/ is_jump(stream[i])])

\* the number of definitions of a label in a stream
definitions(stream, name) ==
    Cardinality({i \in 1..Len(stream) : stream[i].op = "label" /\ stream[i].result = name})

\* C30: in every pass of optimize and in the stream it returns, the labels,
\* jumps and conditional jumps are those of the input stream, with the same
\* operators, operands, targets and order, and every jump target has as
\* many definitions as it had in the input.
C30_SkeletonKept ==
    pc \in {"folding", "cse", "dce", "strength", "optimized"}
    => /\ skeleton(optimized_quads) = skeleton(quadruples)
       /\ \A i \in 1..Len(quadruples) :
             is_jump(quadruples[i])
             => definitions(optimized_quads, quadruples[i].result)
                   = definitions(quadruples, quadruples[i].result)

\* optimize has rewritten a stream with a conditional jump, a jump and two
\* labels
C30_LoopOptimized ==
    /\ pc = "optimized"
    /\ optimized_quads # quadruples
    /\ Len(skeleton(quadruples)) >= 4
    /\ \E i \in 1..Len(quadruples) :
          /\ conditional_jump(quadruples[i].op)
          /\ definitions(quadruples, quadruples[i].result) = 1

====
